---------------------------- MODULE Spec2Model ----------------------------
(***************************************************************************)
(* DailyUpdateService (src/tools/DailyUpdateService): the hourly update    *)
(* scheduler of DailyUpdateServiceV2, its supervising loop                 *)
(* (DailyUpdateServiceTask::update_task), the cycle both of them run       *)
(* (perform_hourly_update), the CacheManager the cycle resets and the Go   *)
(* backend (GoIntegration) the cycle calls.                                *)
(*                                                                         *)
(* One step of the model is one stretch of code between two points where   *)
(* another tokio task can run: a lock-protected section, a subprocess      *)
(* call, a sleep.  Time is the value Utc::now() returns, in seconds.       *)
(***************************************************************************)
EXTENDS Integers, Sequences, FiniteSets, TLC

(***************************************************************************)
(* Bounds of the model.                                                    *)
(***************************************************************************)
NumCallers == 2      \* tasks that call the service's public methods
MaxLoops   == 2      \* supervising loops alive at the same time
MaxRecords == 2      \* records of the backend's temporary table
MaxFaults  == 1      \* backend calls that fail over a run
MaxTicks   == 4      \* clock advances over a run
MaxGets    == 1      \* cache lookups counted between two resets
TickSecs   == 1800   \* seconds the clock advances by in one step
MaxCacheGets  == 2    \* lookups counted between two resets, cache alone
MaxCacheTicks == 4    \* clock advances over a run of the cache alone
CacheTickSecs == 900  \* seconds the clock advances by, cache alone
MaxBatch      == 2    \* entries in one insert_batch call
MaxGoCalls    == 3    \* backend calls that pass the initialization check
MaxPayload    == 3    \* characters of a payload value
MaxIntervalHours == 2 \* largest configured update interval

(***************************************************************************)
(* Program constants.                                                      *)
(***************************************************************************)
PollSecs            == 300   \* lib.rs:380  sleep after a successful check
BackoffSecs         == 60    \* lib.rs:384  sleep after a failed check
StopGraceSecs       == 2     \* lib.rs:207  stop()'s wait
UpdateIntervalHours == 1     \* lib.rs:407  num_hours() >= 1
TtlSecs             == 3600  \* cache_manager.rs:57  time_to_live
IdleSecs            == 1800  \* cache_manager.rs:58  time_to_idle
SecsPerHour         == 60 * 60
DefaultIntervalHours == 1    \* config.rs:95  UpdateConfig::default

Callers == 1..NumCallers
Loops   == (NumCallers + 1)..(NumCallers + MaxLoops)
Tasks   == Callers \cup Loops
Records == 1..MaxRecords
Keys    == {"k1", "k2"}
Values  == {"v1", "v2"}
OneKey   == {"k1"}
OneValue == {"v1"}
MaxTime == MaxTicks * TickSecs

\* Option<T> as a sequence of length at most one.
None    == << >>
Some(x) == << x >>

\* A task that is in no CacheManager call.
NoCall ==
    [key |-> "", value |-> None, batch |-> << >>, had_key |-> FALSE]

VARIABLES
    \* DailyUpdateServiceV2 (lib.rs:117-136)
    is_running, should_stop, last_update_time,
    total_processed, total_accepted, total_denied,
    \* CacheManager (cache_manager.rs:29-48)
    product_cache, admin_cache, entry_count,
    hit_count, miss_count, eviction_count, last_reset_time,
    \* the moka cache behind product_cache: when each entry was last written
    \* and last read
    modified_at, accessed_at,
    \* GoIntegration (go_integration.rs:31-42) and the backend behind it
    is_initialized, status, faults,
    \* the tasks: where each one is, and the locals of the cycle it runs
    pc, op, wake_at, accepted_products, processed_count, accepted_count,
    denied_count,
    \* Utc::now()
    now,
    \* history: how many times migrate_product returned Ok(true) per record
    migrated_ok,
    \* the CacheManager call each task is returning from: its key, its batch,
    \* the value it inserted or the value get is returning, and whether it
    \* found the key in the cache
    call,
    \* history: how many get calls were issued since the counters were last
    \* set to zero
    gets,
    \* history, per supervising loop: "clean" from a gate it found open,
    \* "failed" once that cycle has failed, "stamped" / "failed_stamped" when
    \* another cycle has set last_update_time in the meantime, else "idle"
    cycle_log,
    \* ServiceConfig.update_config.update_interval_hours (config.rs:47-58,
    \* lib.rs:135)
    update_interval_hours,
    \* the statistics of a GoIntegration that tasks call directly
    \* (go_integration.rs:36-39)
    go_calls, successful_inserts, failed_inserts,
    \* history: how many migrate_product calls that passed the
    \* initialization check have returned
    migrate_done,
    \* the building of a backend command line: the method, the payload value
    \* it is given and the argument vector the executable is started with
    command, payload, argv,
    \* the holder of each counter's RwLock write guard (0 when free), and the
    \* ServiceStats value each caller's get_service_stats is putting together
    counter_lock, snapshot,
    \* a ProductData value and what is_denied, is_pending and is_approved
    \* answered on it last
    product, verdict

svcVars   == << is_running, should_stop, last_update_time,
                total_processed, total_accepted, total_denied >>
cacheCore == << product_cache, admin_cache, entry_count,
                hit_count, miss_count, eviction_count, last_reset_time,
                modified_at, accessed_at, gets >>
cacheVars == << cacheCore, call >>
goVars    == << is_initialized, status, faults, migrated_ok >>
cycleVars == << accepted_products, processed_count, accepted_count,
                denied_count >>
taskVars  == << pc, op, wake_at >>
configVars  == << update_interval_hours >>
backendVars == << go_calls, successful_inserts, failed_inserts,
                 migrate_done >>
argVars     == << command, payload, argv >>
lockVars    == << counter_lock, snapshot >>
productVars == << product, verdict >>
\* What no step of start(), stop(), of the cycle taken with its statistics
\* update as one step, or of the CacheManager writes.  The cycle's backend
\* calls go through the service's own GoIntegration, whose statistics
\* nothing in the cycle reads; they are left out of the cycle's steps.
apartVars   == << configVars, backendVars, argVars, lockVars, productVars >>
vars      == << svcVars, cacheVars, goVars, cycleVars, taskVars, now,
                cycle_log, apartVars >>

IsLoop(t)   == t \in Loops
IsCaller(t) == t \in Callers
Alive(t)    == pc[t] # "none"
LiveLoops   == { l \in Loops : Alive(l) }

RECURSIVE SetToSeq(_)
SetToSeq(S) ==
    IF S = {} THEN << >>
    ELSE LET m == CHOOSE x \in S : \A y \in S : x <= y
         IN  << m >> \o SetToSeq(S \ {m})

(***************************************************************************)
(* DailyUpdateServiceV2::new, CacheManager::new, GoIntegration::new.       *)
(* Every field of the service is pub, so a service can also be built       *)
(* around a GoIntegration on which initialize() succeeded: is_initialized  *)
(* is either value.                                                        *)
(***************************************************************************)
\* The three counters' locks (lib.rs:131-133), by the name of the field.
CounterLocks == {"total_processed", "total_accepted", "total_denied"}

\* A ServiceStats value (lib.rs:95-104) nothing has been read into yet; the
\* cache's and the backend's statistics are left out.
NoStats ==
    [is_running |-> FALSE, last_update_time |-> 0, total_processed |-> 0,
     total_accepted |-> 0, total_denied |-> 0]

\* No ProductData value is at hand, and none was asked about.  Of the
\* struct's fields (lib.rs:18-42) the four ProductData::new is given and
\* approval_status are kept; fresh says that nothing was assigned to the
\* value since new() built it, asked that the three answers are of the
\* value at hand.
NoProduct == [name |-> "", slug |-> "", category |-> "", submitted_by |-> "",
              approval_status |-> 0, fresh |-> FALSE]
NoVerdict == [asked |-> FALSE, is_denied |-> FALSE, is_pending |-> FALSE,
              is_approved |-> FALSE]

\* The product cache as CacheManager::new builds it (cache_manager.rs:52-70).
InitEmptyCache ==
    /\ product_cache = [k \in Keys |-> None]
    /\ entry_count = 0

\* A service and its components just built, the product cache apart.
InitAroundCache ==
    /\ is_running = FALSE
    /\ should_stop = FALSE
    /\ last_update_time = 0
    /\ total_processed = 0
    /\ total_accepted = 0
    /\ total_denied = 0
    /\ admin_cache = [k \in Keys |-> None]
    /\ hit_count = None
    /\ miss_count = None
    /\ eviction_count = None
    /\ last_reset_time = None
    /\ modified_at = [k \in Keys |-> 0]
    /\ accessed_at = [k \in Keys |-> 0]
    /\ call = [t \in Tasks |-> NoCall]
    /\ gets = 0
    /\ cycle_log = [l \in Loops |-> "idle"]
    /\ is_initialized \in BOOLEAN
    /\ status = [r \in Records |-> "pending"]
    /\ faults = 0
    /\ migrated_ok = [r \in Records |-> 0]
    /\ pc = [t \in Tasks |-> IF IsLoop(t) THEN "none" ELSE "idle"]
    /\ op = [t \in Tasks |-> "none"]
    /\ wake_at = [t \in Tasks |-> 0]
    /\ accepted_products = [t \in Tasks |-> << >>]
    /\ processed_count = [t \in Tasks |-> 0]
    /\ accepted_count = [t \in Tasks |-> 0]
    /\ denied_count = [t \in Tasks |-> 0]
    /\ now = 0
    /\ go_calls = 0
    /\ successful_inserts = 0
    /\ failed_inserts = 0
    /\ migrate_done = 0
    /\ counter_lock = [k \in CounterLocks |-> 0]
    /\ snapshot = [c \in Callers |-> NoStats]

\* What Init and the other initial conditions have in common.
InitService == InitEmptyCache /\ InitAroundCache

\* A service built with ServiceConfig::default() (config.rs:60-69), no
\* command line being built.
Init ==
    /\ InitService
    /\ update_interval_hours = DefaultIntervalHours
    /\ command = "none"
    /\ payload = << >>
    /\ argv = << >>
    /\ product = NoProduct
    /\ verdict = NoVerdict


(***************************************************************************)
(* Pure parts of the code.                                                 *)
(***************************************************************************)
\* chrono::Duration::num_hours: whole hours, truncated toward zero.
NumHours(d) ==
    IF d >= 0 THEN d \div SecsPerHour ELSE -((-d) \div SecsPerHour)

\* Faulty variant of is_time_for_hourly_update: more than one whole hour.
is_time_after_hourly_update(t_now, last_update) ==
    NumHours(t_now - last_update) > UpdateIntervalHours

\* DailyUpdateServiceTask::is_time_for_hourly_update (lib.rs:402-408).
is_time_for_hourly_update(t_now, last_update) ==
    NumHours(t_now - last_update) >= UpdateIntervalHours

\* One turn of the for loop of DailyUpdateServiceV2::process_accepted_products
\* (lib.rs:320-336); outcome is what migrate_product returned.
ServiceMigrateCounts(c, outcome) ==
    [processed |-> c.processed + 1,
     accepted  |-> IF outcome = "true" THEN c.accepted + 1 ELSE c.accepted,
     denied    |-> IF outcome \in {"false", "err"} THEN c.denied + 1
                   ELSE c.denied]

\* Faulty variant of TaskMigrateCounts: an Err of migrate_product is not counted.
TaskMigrateCountsErrDropped(c, outcome) ==
    [processed |-> c.processed + 1,
     accepted  |-> IF outcome = "true" THEN c.accepted + 1 ELSE c.accepted,
     denied    |-> IF outcome = "false" THEN c.denied + 1 ELSE c.denied]

\* The same turn in DailyUpdateServiceTask::process_accepted_products
\* (lib.rs:447-463).
TaskMigrateCounts(c, outcome) ==
    [processed |-> c.processed + 1,
     accepted  |-> IF outcome = "true" THEN c.accepted + 1 ELSE c.accepted,
     denied    |-> IF outcome \in {"false", "err"} THEN c.denied + 1
                   ELSE c.denied]

\* Faulty variant of ServiceUpdateStatistics: total_denied is left out.
ServiceUpdateStatisticsNoDenied(tot, c) ==
    << tot[1] + c.processed, tot[2] + c.accepted, tot[3] >>

\* "Update statistics" of DailyUpdateServiceV2::process_accepted_products
\* (lib.rs:339-347): tot and the result are <<processed, accepted, denied>>.
ServiceUpdateStatistics(tot, c) ==
    << tot[1] + c.processed, tot[2] + c.accepted, tot[3] + c.denied >>

\* Faulty variant of TaskUpdateStatistics: the loop's cycle adds to
\* total_processed only.
TaskUpdateStatisticsProcessedOnly(tot, c) ==
    << tot[1] + c.processed, tot[2], tot[3] >>

\* "Update statistics" of DailyUpdateServiceTask::process_accepted_products
\* (lib.rs:466-474).
TaskUpdateStatistics(tot, c) ==
    << tot[1] + c.processed, tot[2] + c.accepted, tot[3] + c.denied >>

MigrateCounts(t, c, outcome) ==
    IF IsLoop(t) THEN TaskMigrateCounts(c, outcome)
    ELSE ServiceMigrateCounts(c, outcome)

UpdateStatistics(t, tot, c) ==
    IF IsLoop(t) THEN TaskUpdateStatistics(tot, c)
    ELSE ServiceUpdateStatistics(tot, c)

LocalCounts(t) ==
    [processed |-> processed_count[t], accepted |-> accepted_count[t],
     denied |-> denied_count[t]]

(***************************************************************************)
(* The backend: the Go executable and the temporary table behind it.  The  *)
(* executable is not part of the Rust sources; what it answers is chosen   *)
(* freely here, within MaxFaults failures.                                 *)
(***************************************************************************)
\* What get-approved-products lists: the records with approval_status = 1
\* that the backend has not yet moved to the main table.
ApprovedRecords == { r \in Records : status[r] = "approved" }

\* The external review path: a pending record is approved.
Review(r) ==
    /\ status[r] = "pending"
    /\ status' = [status EXCEPT ![r] = "approved"]
    /\ UNCHANGED << svcVars, cacheVars, is_initialized, faults, migrated_ok,
                    cycleVars, taskVars, now, apartVars, cycle_log >>

(***************************************************************************)
(* CacheManager (cache_manager.rs), as its clients and the cycle use it.   *)
(* product_cache is a moka cache built with a time to live and a time to   *)
(* idle (cache_manager.rs:54-60): an entry is gone once either has passed. *)
(* Each public method is one step.                                         *)
(***************************************************************************)
\* moka's expiry test: an entry written at modified_at[k] and last read or
\* written at accessed_at[k] has expired at time t.
Expired(k, t) ==
    \/ t >= modified_at[k] + TtlSecs
    \/ t >= accessed_at[k] + IdleSecs

\* Cache::contains_key: the entry is there and has not expired.
contains_key(k) == product_cache[k] # None /\ ~Expired(k, now)

\* The clock advances by d seconds; the moka cache drops the entries that
\* have expired by then.  Nothing in CacheManager hears of it: entry_count
\* and eviction_count stay as they are (cache_manager.rs:54-60 registers no
\* eviction listener).
Advance(d) ==
    /\ now' = now + d
    /\ product_cache' = [k \in Keys |->
            IF Expired(k, now + d) THEN None ELSE product_cache[k]]
    /\ modified_at' = [k \in Keys |->
            IF Expired(k, now + d) THEN 0 ELSE modified_at[k]]
    /\ accessed_at' = [k \in Keys |->
            IF Expired(k, now + d) THEN 0 ELSE accessed_at[k]]
    /\ UNCHANGED << admin_cache, entry_count, hit_count, miss_count,
                    eviction_count, last_reset_time, call, gets >>
    /\ UNCHANGED << svcVars, goVars, cycleVars, taskVars, cycle_log,
                    apartVars >>

\* The clock of the scheduler's specifications.
Tick ==
    /\ now + TickSecs <= MaxTime
    /\ Advance(TickSecs)

\* Faulty variant of Bump: a counter that has no entry yet is created by the
\* first count.
BumpOrCreate(counter) ==
    IF counter = None THEN Some(1) ELSE Some(counter[1] + 1)

\* A DashMap counter under the key "product_cache": get_mut(..).map(+1)
\* leaves an absent entry absent (cache_manager.rs:91-93, 98-100).
Bump(counter) == IF counter = None THEN None ELSE Some(counter[1] + 1)

\* get_cache_stats' reading of a counter: unwrap_or(0)
\* (cache_manager.rs:182-195).
StatOf(counter) == IF counter = None THEN 0 ELSE counter[1]

\* CacheManager::initialize (cache_manager.rs:73-84).
CacheInitialize ==
    /\ hit_count' = Some(0)
    /\ miss_count' = Some(0)
    /\ eviction_count' = Some(0)
    /\ last_reset_time' = Some(now)
    /\ gets' = 0
    /\ UNCHANGED << product_cache, admin_cache, entry_count, modified_at,
                    accessed_at >>

\* Task c calls the CacheManager method name; info is what it passes and
\* what it gets back.  The method runs in this step and c returns next.
CacheCall(c, name, info) ==
    /\ pc[c] = "idle"
    /\ op' = [op EXCEPT ![c] = name]
    /\ pc' = [pc EXCEPT ![c] = "ret_ok"]
    /\ call' = [call EXCEPT ![c] = info]
    /\ UNCHANGED << svcVars, goVars, cycleVars, wake_at, now, apartVars, cycle_log >>

\* Faulty variant of CacheGet: a lookup that finds the entry takes it out of
\* the cache.
CacheGetTakes(c, k) ==
    /\ CacheCall(c, "get",
            [key |-> k,
             value |-> IF contains_key(k) THEN product_cache[k] ELSE None,
             batch |-> << >>, had_key |-> contains_key(k)])
    /\ IF contains_key(k)
       THEN /\ hit_count' = Bump(hit_count)
            /\ product_cache' = [product_cache EXCEPT ![k] = None]
            /\ modified_at' = [modified_at EXCEPT ![k] = 0]
            /\ accessed_at' = [accessed_at EXCEPT ![k] = 0]
            /\ UNCHANGED miss_count
       ELSE /\ miss_count' = Bump(miss_count)
            /\ UNCHANGED << hit_count, product_cache, modified_at,
                            accessed_at >>
    /\ gets' = gets + 1
    /\ UNCHANGED << admin_cache, entry_count, eviction_count,
                    last_reset_time >>

\* Faulty variant of CacheGet: a lookup that finds nothing is not counted.
CacheGetMissUncounted(c, k) ==
    /\ CacheCall(c, "get",
            [key |-> k,
             value |-> IF contains_key(k) THEN product_cache[k] ELSE None,
             batch |-> << >>, had_key |-> contains_key(k)])
    /\ IF contains_key(k)
       THEN /\ hit_count' = Bump(hit_count)
            /\ accessed_at' = [accessed_at EXCEPT ![k] = now]
       ELSE UNCHANGED << hit_count, accessed_at >>
    /\ gets' = gets + 1
    /\ UNCHANGED << product_cache, admin_cache, entry_count, miss_count,
                    eviction_count, last_reset_time, modified_at >>

\* CacheManager::get (cache_manager.rs:87-104).
CacheGet(c, k) ==
    /\ CacheCall(c, "get",
            [key |-> k,
             value |-> IF contains_key(k) THEN product_cache[k] ELSE None,
             batch |-> << >>, had_key |-> contains_key(k)])
    /\ IF contains_key(k)
       THEN /\ hit_count' = Bump(hit_count)
            /\ accessed_at' = [accessed_at EXCEPT ![k] = now]
            /\ UNCHANGED miss_count
       ELSE /\ miss_count' = Bump(miss_count)
            /\ UNCHANGED << hit_count, accessed_at >>
    /\ gets' = gets + 1
    /\ UNCHANGED << product_cache, admin_cache, entry_count, eviction_count,
                    last_reset_time, modified_at >>

\* The three statements of insert (cache_manager.rs:108-113) on the cache
\* c = [map, count, modified, accessed] at time t; insert_batch runs the
\* same three per entry (cache_manager.rs:119-123).
InsertInto(c, k, v, t) ==
    LET is_new_key ==
            ~(/\ c.map[k] # None
              /\ t < c.modified[k] + TtlSecs
              /\ t < c.accessed[k] + IdleSecs)
    IN  [map      |-> [c.map EXCEPT ![k] = Some(v)],
         count    |-> IF is_new_key THEN c.count + 1 ELSE c.count,
         modified |-> [c.modified EXCEPT ![k] = t],
         accessed |-> [c.accessed EXCEPT ![k] = t]]

RECURSIVE InsertAll(_, _, _)
InsertAll(c, entries, t) ==
    IF entries = << >> THEN c
    ELSE InsertAll(InsertInto(c, Head(entries)[1], Head(entries)[2], t),
                   Tail(entries), t)

TheCache ==
    [map |-> product_cache, count |-> entry_count,
     modified |-> modified_at, accessed |-> accessed_at]

SetCache(c) ==
    /\ product_cache' = c.map
    /\ entry_count' = c.count
    /\ modified_at' = c.modified
    /\ accessed_at' = c.accessed

\* Faulty variant of CacheInsert: every insert counts a new entry.
CacheInsertAlwaysCounts(c, k, v) ==
    /\ CacheCall(c, "insert",
            [key |-> k, value |-> Some(v), batch |-> << >>,
             had_key |-> contains_key(k)])
    /\ product_cache' = [product_cache EXCEPT ![k] = Some(v)]
    /\ modified_at' = [modified_at EXCEPT ![k] = now]
    /\ accessed_at' = [accessed_at EXCEPT ![k] = now]
    /\ entry_count' = entry_count + 1
    /\ UNCHANGED << admin_cache, hit_count, miss_count, eviction_count,
                    last_reset_time, gets >>

\* CacheManager::insert (cache_manager.rs:107-114).
CacheInsert(c, k, v) ==
    /\ CacheCall(c, "insert",
            [key |-> k, value |-> Some(v), batch |-> << >>,
             had_key |-> contains_key(k)])
    /\ SetCache(InsertInto(TheCache, k, v, now))
    /\ UNCHANGED << admin_cache, hit_count, miss_count, eviction_count,
                    last_reset_time, gets >>

\* Faulty variant of CacheInsertBatch: which keys are new is decided for the
\* whole batch before anything is stored.
CacheInsertBatchCountsUpFront(c, entries) ==
    /\ CacheCall(c, "insert_batch",
            [key |-> "", value |-> None, batch |-> entries,
             had_key |-> FALSE])
    /\ product_cache' = InsertAll(TheCache, entries, now).map
    /\ modified_at' = InsertAll(TheCache, entries, now).modified
    /\ accessed_at' = InsertAll(TheCache, entries, now).accessed
    /\ entry_count' = entry_count + Cardinality(
            { i \in 1..Len(entries) : ~contains_key(entries[i][1]) })
    /\ UNCHANGED << admin_cache, hit_count, miss_count, eviction_count,
                    last_reset_time, gets >>

\* CacheManager::insert statement by statement, for callers that run at the
\* same time.  cache_manager.rs:108: the contains_key check; its result is
\* the call's is_new_key, kept as had_key.
InsertCheck(c, k, v) ==
    /\ pc[c] = "idle"
    /\ op' = [op EXCEPT ![c] = "insert"]
    /\ pc' = [pc EXCEPT ![c] = "insert_store"]
    /\ call' = [call EXCEPT ![c] =
                    [key |-> k, value |-> Some(v), batch |-> << >>,
                     had_key |-> contains_key(k)]]
    /\ UNCHANGED << svcVars, cacheCore, goVars, cycleVars, wake_at, now, apartVars,
                    cycle_log >>

\* cache_manager.rs:109: product_cache.insert(key, value).await.
InsertStore(c) ==
    /\ pc[c] = "insert_store"
    /\ pc' = [pc EXCEPT ![c] = "insert_count"]
    /\ product_cache' = [product_cache EXCEPT ![call[c].key] = call[c].value]
    /\ modified_at' = [modified_at EXCEPT ![call[c].key] = now]
    /\ accessed_at' = [accessed_at EXCEPT ![call[c].key] = now]
    /\ UNCHANGED << admin_cache, entry_count, hit_count, miss_count,
                    eviction_count, last_reset_time, gets, call >>
    /\ UNCHANGED << svcVars, goVars, cycleVars, op, wake_at, now, apartVars, cycle_log >>

\* Faulty variant of InsertCount: whether the key is new is read again
\* after it was stored.
InsertCountRechecks(c) ==
    /\ pc[c] = "insert_count"
    /\ pc' = [pc EXCEPT ![c] = "ret_ok"]
    /\ entry_count' = IF contains_key(call[c].key) THEN entry_count
                      ELSE entry_count + 1
    /\ UNCHANGED << product_cache, admin_cache, hit_count, miss_count,
                    eviction_count, last_reset_time, modified_at,
                    accessed_at, gets, call >>
    /\ UNCHANGED << svcVars, goVars, cycleVars, op, wake_at, now, apartVars, cycle_log >>

\* cache_manager.rs:111-113: fetch_add(1) if is_new_key; the call returns.
InsertCount(c) ==
    /\ pc[c] = "insert_count"
    /\ pc' = [pc EXCEPT ![c] = "ret_ok"]
    /\ entry_count' = IF call[c].had_key THEN entry_count
                      ELSE entry_count + 1
    /\ UNCHANGED << product_cache, admin_cache, hit_count, miss_count,
                    eviction_count, last_reset_time, modified_at,
                    accessed_at, gets, call >>
    /\ UNCHANGED << svcVars, goVars, cycleVars, op, wake_at, now, apartVars, cycle_log >>

\* CacheManager::insert_batch (cache_manager.rs:117-125).
CacheInsertBatch(c, entries) ==
    /\ CacheCall(c, "insert_batch",
            [key |-> "", value |-> None, batch |-> entries,
             had_key |-> FALSE])
    /\ SetCache(InsertAll(TheCache, entries, now))
    /\ UNCHANGED << admin_cache, hit_count, miss_count, eviction_count,
                    last_reset_time, gets >>

\* Faulty variant of CacheRemove: a removal is counted as an eviction.
CacheRemoveCountsEviction(c, k) ==
    /\ CacheCall(c, "remove",
            [key |-> k, value |-> None, batch |-> << >>,
             had_key |-> contains_key(k)])
    /\ product_cache' = [product_cache EXCEPT ![k] = None]
    /\ modified_at' = [modified_at EXCEPT ![k] = 0]
    /\ accessed_at' = [accessed_at EXCEPT ![k] = 0]
    /\ entry_count' = IF contains_key(k) THEN entry_count - 1
                      ELSE entry_count
    /\ eviction_count' = IF contains_key(k) THEN Bump(eviction_count)
                         ELSE eviction_count
    /\ UNCHANGED << admin_cache, hit_count, miss_count, last_reset_time,
                    gets >>

\* Faulty variant of CacheRemove: the count goes down whether or not the
\* key was there.
CacheRemoveAlwaysCounts(c, k) ==
    /\ CacheCall(c, "remove",
            [key |-> k, value |-> None, batch |-> << >>,
             had_key |-> contains_key(k)])
    /\ product_cache' = [product_cache EXCEPT ![k] = None]
    /\ modified_at' = [modified_at EXCEPT ![k] = 0]
    /\ accessed_at' = [accessed_at EXCEPT ![k] = 0]
    /\ entry_count' = entry_count - 1
    /\ UNCHANGED << admin_cache, hit_count, miss_count, eviction_count,
                    last_reset_time, gets >>

\* CacheManager::remove (cache_manager.rs:128-134).  entry_count is an
\* AtomicU64: a negative value here stands for the value 2^64 less that
\* fetch_sub wraps to.
CacheRemove(c, k) ==
    /\ CacheCall(c, "remove",
            [key |-> k, value |-> None, batch |-> << >>,
             had_key |-> contains_key(k)])
    /\ product_cache' = [product_cache EXCEPT ![k] = None]
    /\ modified_at' = [modified_at EXCEPT ![k] = 0]
    /\ accessed_at' = [accessed_at EXCEPT ![k] = 0]
    /\ entry_count' = IF contains_key(k) THEN entry_count - 1
                      ELSE entry_count
    /\ UNCHANGED << admin_cache, hit_count, miss_count, eviction_count,
                    last_reset_time, gets >>

\* The two statements of clear (cache_manager.rs:138-139).
clear ==
    /\ product_cache' = [k \in Keys |-> None]
    /\ modified_at' = [k \in Keys |-> 0]
    /\ accessed_at' = [k \in Keys |-> 0]
    /\ entry_count' = 0

\* Faulty variant of CacheClear: the hit and miss counters are zeroed too.
CacheClearZeroesCounters(c) ==
    /\ CacheCall(c, "clear", NoCall)
    /\ clear
    /\ hit_count' = Some(0)
    /\ miss_count' = Some(0)
    /\ UNCHANGED << admin_cache, eviction_count, last_reset_time, gets >>

\* CacheManager::clear (cache_manager.rs:137-141).
CacheClear(c) ==
    /\ CacheCall(c, "clear", NoCall)
    /\ clear
    /\ UNCHANGED << admin_cache, hit_count, miss_count, eviction_count,
                    last_reset_time, gets >>

\* CacheManager::insert_admin (cache_manager.rs:149-151).
CacheInsertAdmin(c, k, v) ==
    /\ CacheCall(c, "insert_admin",
            [key |-> k, value |-> Some(v), batch |-> << >>,
             had_key |-> admin_cache[k] # None])
    /\ admin_cache' = [admin_cache EXCEPT ![k] = Some(v)]
    /\ UNCHANGED << product_cache, entry_count, hit_count, miss_count,
                    eviction_count, last_reset_time, modified_at,
                    accessed_at, gets >>

\* Faulty variant of CacheClearAdmin: the product cache is cleared with the
\* admin cache.
CacheClearAdminAndProducts(c) ==
    /\ CacheCall(c, "clear_admin",
            [NoCall EXCEPT !.had_key = \E k \in Keys : admin_cache[k] # None])
    /\ admin_cache' = [k \in Keys |-> None]
    /\ clear
    /\ UNCHANGED << hit_count, miss_count, eviction_count, last_reset_time,
                    gets >>

\* CacheManager::clear_admin (cache_manager.rs:154-157); had_key is whether
\* the admin cache held anything.
CacheClearAdmin(c) ==
    /\ CacheCall(c, "clear_admin",
            [NoCall EXCEPT !.had_key = \E k \in Keys : admin_cache[k] # None])
    /\ admin_cache' = [k \in Keys |-> None]
    /\ UNCHANGED << product_cache, entry_count, hit_count, miss_count,
                    eviction_count, last_reset_time, modified_at,
                    accessed_at, gets >>

\* CacheManager::shutdown (cache_manager.rs:216-225): clear, then
\* clear_admin.
CacheShutdown(c) ==
    /\ CacheCall(c, "shutdown",
            [NoCall EXCEPT !.had_key = \E k \in Keys : admin_cache[k] # None])
    /\ clear
    /\ admin_cache' = [k \in Keys |-> None]
    /\ UNCHANGED << hit_count, miss_count, eviction_count, last_reset_time,
                    gets >>

\* Faulty variant of perform_daily_cache_reset: the admin cache is cleared
\* with the product cache.
perform_full_cache_reset ==
    /\ clear
    /\ hit_count' = Some(0)
    /\ miss_count' = Some(0)
    /\ eviction_count' = Some(0)
    /\ last_reset_time' = Some(now)
    /\ gets' = 0
    /\ admin_cache' = [k \in Keys |-> None]

\* What CacheManager::perform_daily_cache_reset does to the CacheManager
\* (cache_manager.rs:160-176); the cycle runs it too.
perform_daily_cache_reset ==
    /\ clear
    /\ hit_count' = Some(0)
    /\ miss_count' = Some(0)
    /\ eviction_count' = Some(0)
    /\ last_reset_time' = Some(now)
    /\ gets' = 0
    /\ UNCHANGED admin_cache

\* CacheManager::initialize and CacheManager::perform_daily_cache_reset,
\* called by a client of the CacheManager.
CacheInit(c) ==
    /\ CacheCall(c, "cache_initialize", NoCall)
    /\ CacheInitialize

CacheReset(c) ==
    /\ CacheCall(c, "perform_daily_cache_reset", NoCall)
    /\ perform_daily_cache_reset

(***************************************************************************)
(* DailyUpdateServiceV2: initialize, start, stop, force_hourly_update.     *)
(***************************************************************************)
Goto(t, label) == pc' = [pc EXCEPT ![t] = label]

Call(c, name) ==
    /\ pc[c] = "idle"
    /\ op' = [op EXCEPT ![c] = name]

\* initialize (lib.rs:155-165) with initialize_components (lib.rs:262-281):
\* the CacheManager is initialized, then a GoIntegration created on the
\* spot (lib.rs:273) is; go_ok is whether that one came up.
Initialize(c, go_ok) ==
    /\ Call(c, "initialize")
    /\ CacheInitialize
    /\ Goto(c, IF go_ok THEN "ret_ok" ELSE "ret_err")
    /\ UNCHANGED << svcVars, goVars, cycleVars, wake_at, now, apartVars, cycle_log,
                    call >>

\* Faulty variant of StartCheck: start() without its already-running check.
StartCheckNoGuard(c) ==
    /\ Call(c, "start")
    /\ is_running' = TRUE
    /\ Goto(c, "start_clear")
    /\ UNCHANGED << should_stop, last_update_time, total_processed,
                    total_accepted, total_denied >>
    /\ UNCHANGED << cacheVars, goVars, cycleVars, wake_at, now, apartVars, cycle_log >>

\* start, lib.rs:169-176: the already-running check and is_running = true,
\* under the write lock.
StartCheck(c) ==
    /\ Call(c, "start")
    /\ IF is_running
       THEN /\ Goto(c, "ret_ok")
            /\ UNCHANGED is_running
       ELSE /\ is_running' = TRUE
            /\ Goto(c, "start_clear")
    /\ UNCHANGED << should_stop, last_update_time, total_processed,
                    total_accepted, total_denied >>
    /\ UNCHANGED << cacheVars, goVars, cycleVars, wake_at, now, apartVars, cycle_log >>

\* Faulty variant of StartClear: start() leaves should_stop as stop() left it.
StartKeepsFlag(c) ==
    /\ pc[c] = "start_clear"
    /\ Goto(c, "start_spawn")
    /\ UNCHANGED << svcVars, cacheVars, goVars, cycleVars, op, wake_at, now,
                    apartVars, cycle_log >>

\* start, lib.rs:178-180: should_stop = false.
StartClear(c) ==
    /\ pc[c] = "start_clear"
    /\ should_stop' = FALSE
    /\ Goto(c, "start_spawn")
    /\ UNCHANGED << is_running, last_update_time, total_processed,
                    total_accepted, total_denied >>
    /\ UNCHANGED << cacheVars, goVars, cycleVars, op, wake_at, now, apartVars, cycle_log >>

\* start, lib.rs:183-189: tokio::spawn of update_task.  The new task takes
\* the first free slot; with MaxLoops loops alive the spawn waits.
StartSpawn(c) ==
    /\ pc[c] = "start_spawn"
    /\ \E l \in Loops :
        /\ ~Alive(l)
        /\ \A m \in Loops : m < l => Alive(m)
        /\ pc' = [pc EXCEPT ![c] = "ret_ok", ![l] = "check_stop"]
        /\ op' = [op EXCEPT ![l] = "loop"]
    /\ UNCHANGED << svcVars, cacheVars, goVars, cycleVars, wake_at, now, apartVars, cycle_log >>

\* Faulty variant of StopCheck: stop() without its not-running check.
StopCheckNoGuard(c) ==
    /\ Call(c, "stop")
    /\ Goto(c, "stop_set")
    /\ UNCHANGED << svcVars, cacheVars, goVars, cycleVars, wake_at, now, apartVars, cycle_log >>

\* stop, lib.rs:194-198: the not-running check under the read lock.
StopCheck(c) ==
    /\ Call(c, "stop")
    /\ Goto(c, IF is_running THEN "stop_set" ELSE "ret_ok")
    /\ UNCHANGED << svcVars, cacheVars, goVars, cycleVars, wake_at, now, apartVars, cycle_log >>

\* stop, lib.rs:202-207: should_stop = true, then the sleep begins.
StopSet(c) ==
    /\ pc[c] = "stop_set"
    /\ should_stop' = TRUE
    /\ wake_at' = [wake_at EXCEPT ![c] = now + StopGraceSecs]
    /\ Goto(c, "stop_sleep")
    /\ UNCHANGED << is_running, last_update_time, total_processed,
                    total_accepted, total_denied >>
    /\ UNCHANGED << cacheVars, goVars, cycleVars, op, now, apartVars, cycle_log >>

\* Faulty variant of StopMark: stop() joins the supervising loops before it returns.
StopMarkJoinsLoops(c) ==
    /\ pc[c] = "stop_sleep"
    /\ now >= wake_at[c]
    /\ LiveLoops = {}
    /\ is_running' = FALSE
    /\ Goto(c, "ret_ok")
    /\ wake_at' = [wake_at EXCEPT ![c] = 0]
    /\ UNCHANGED << should_stop, last_update_time, total_processed,
                    total_accepted, total_denied >>
    /\ UNCHANGED << cacheVars, goVars, cycleVars, op, now, apartVars, cycle_log >>

\* stop, lib.rs:207-213: the sleep is over; is_running = false.
StopMark(c) ==
    /\ pc[c] = "stop_sleep"
    /\ now >= wake_at[c]
    /\ is_running' = FALSE
    /\ Goto(c, "ret_ok")
    /\ wake_at' = [wake_at EXCEPT ![c] = 0]
    /\ UNCHANGED << should_stop, last_update_time, total_processed,
                    total_accepted, total_denied >>
    /\ UNCHANGED << cacheVars, goVars, cycleVars, op, now, apartVars, cycle_log >>

\* force_hourly_update (lib.rs:217-221): straight into perform_hourly_update.
Force(c) ==
    /\ Call(c, "force")
    /\ Goto(c, "fetch")
    /\ UNCHANGED << svcVars, cacheVars, goVars, cycleVars, wake_at, now, apartVars, cycle_log >>

\* The call returns to its caller.
Return(c) ==
    /\ pc[c] \in {"ret_ok", "ret_err"}
    /\ Goto(c, "idle")
    /\ op' = [op EXCEPT ![c] = "none"]
    /\ call' = [call EXCEPT ![c] = NoCall]
    /\ UNCHANGED << svcVars, cacheCore, goVars, cycleVars, wake_at, now, apartVars,
                    cycle_log >>

(***************************************************************************)
(* DailyUpdateServiceTask::update_task, the supervising loop.              *)
(***************************************************************************)
\* Faulty variant of LoopSleepSecs: the loop waits the poll interval after a
\* failed cycle too.
LoopSleepSecsAlwaysPoll(ok) == PollSecs

\* update_task, lib.rs:377-386: how long the loop sleeps after
\* check_and_update returned Ok (ok) or Err.
LoopSleepSecs(ok) == IF ok THEN PollSecs ELSE BackoffSecs

\* update_task, lib.rs:372-375: read should_stop; break when it is set.
LoopCheckStop(l) ==
    /\ pc[l] = "check_stop"
    /\ IF should_stop
       THEN /\ Goto(l, "none")
            /\ op' = [op EXCEPT ![l] = "none"]
       ELSE /\ Goto(l, "gate")
            /\ UNCHANGED op
    /\ cycle_log' = [cycle_log EXCEPT ![l] = IF should_stop THEN "idle" ELSE @]
    /\ UNCHANGED << svcVars, cacheVars, goVars, cycleVars, wake_at, now, apartVars >>

\* check_and_update, lib.rs:393-399: the gate; when it is closed Ok(()) goes
\* back to update_task, which sleeps (lib.rs:380).
LoopGate(l) ==
    /\ pc[l] = "gate"
    /\ IF is_time_for_hourly_update(now, last_update_time)
       THEN /\ Goto(l, "fetch")
            /\ cycle_log' = [cycle_log EXCEPT ![l] = "clean"]
            /\ UNCHANGED wake_at
       ELSE /\ Goto(l, "sleep")
            /\ cycle_log' = [cycle_log EXCEPT ![l] = "idle"]
            /\ wake_at' = [wake_at EXCEPT ![l] = now + LoopSleepSecs(TRUE)]
    /\ UNCHANGED << svcVars, cacheVars, goVars, cycleVars, op, now, apartVars >>

\* update_task, lib.rs:380/384: the sleep is over, next turn of the loop.
LoopWake(l) ==
    /\ pc[l] = "sleep"
    /\ now >= wake_at[l]
    /\ Goto(l, "check_stop")
    /\ wake_at' = [wake_at EXCEPT ![l] = 0]
    /\ UNCHANGED << svcVars, cacheVars, goVars, cycleVars, op, now, apartVars, cycle_log >>

(***************************************************************************)
(* perform_hourly_update and process_accepted_products, in the service     *)
(* (lib.rs:284-351, run by force_hourly_update) and in the task            *)
(* (lib.rs:411-478, run by the loop).                                      *)
(***************************************************************************)
\* What is on record for loop l once the cycle of task t has ended with Ok
\* (ok), which set last_update_time, or with Err.
CycleLogAfter(l, t, ok) ==
    IF ok
    THEN IF l = t THEN "idle"
         ELSE IF cycle_log[l] = "clean" THEN "stamped"
         ELSE IF cycle_log[l] = "failed" THEN "failed_stamped"
         ELSE cycle_log[l]
    ELSE IF l # t THEN cycle_log[l]
         ELSE IF cycle_log[l] = "stamped" THEN "failed_stamped"
         ELSE "failed"

\* Faulty variant of EndCycle: update_task breaks out of its loop when
\* check_and_update returns Err.
EndCycleBreaksOnErr(t, ok) ==
    /\ Goto(t, IF IsLoop(t) THEN (IF ok THEN "sleep" ELSE "none")
               ELSE IF ok THEN "ret_ok" ELSE "ret_err")
    /\ wake_at' = IF IsLoop(t) /\ ok
                  THEN [wake_at EXCEPT ![t] = now + LoopSleepSecs(ok)]
                  ELSE wake_at
    /\ accepted_products' = [accepted_products EXCEPT ![t] = << >>]
    /\ processed_count' = [processed_count EXCEPT ![t] = 0]
    /\ accepted_count' = [accepted_count EXCEPT ![t] = 0]
    /\ denied_count' = [denied_count EXCEPT ![t] = 0]
    /\ cycle_log' = [l \in Loops |-> CycleLogAfter(l, t, ok)]

\* The cycle of task t ends with Ok (ok) or Err: a caller gets the result,
\* a loop goes to sleep (lib.rs:377-386).
EndCycle(t, ok) ==
    /\ Goto(t, IF IsLoop(t) THEN "sleep"
               ELSE IF ok THEN "ret_ok" ELSE "ret_err")
    /\ wake_at' = IF IsLoop(t)
                  THEN [wake_at EXCEPT ![t] = now + LoopSleepSecs(ok)]
                  ELSE wake_at
    /\ accepted_products' = [accepted_products EXCEPT ![t] = << >>]
    /\ processed_count' = [processed_count EXCEPT ![t] = 0]
    /\ accepted_count' = [accepted_count EXCEPT ![t] = 0]
    /\ denied_count' = [denied_count EXCEPT ![t] = 0]
    /\ cycle_log' = [l \in Loops |-> CycleLogAfter(l, t, ok)]

\* What get_accepted_products yields on exit code 0.  The source returns
\* Vec::new() until the backend's output is parsed (go_integration.rs:123-125);
\* the listing the backend printed is used here, the empty one included.
FetchedProducts == SetToSeq(ApprovedRecords)

\* Faulty variant of FetchFail: the error is logged and the cycle goes on to the
\* cache reset.
FetchFailSwallowed(t, why) ==
    /\ pc[t] = "fetch"
    /\ \/ why = "not_initialized" /\ ~is_initialized /\ UNCHANGED faults
       \/ /\ why \in {"spawn_err", "nonzero"}
          /\ is_initialized
          /\ faults < MaxFaults
          /\ faults' = faults + 1
    /\ Goto(t, "reset")
    /\ UNCHANGED << svcVars, cacheVars, is_initialized, status, migrated_ok,
                    cycleVars, op, wake_at, now, apartVars, cycle_log >>

\* Faulty variant of FetchFail: the failed cycle still stamps last_update_time.
FetchFailStamps(t, why) ==
    /\ pc[t] = "fetch"
    /\ \/ why = "not_initialized" /\ ~is_initialized /\ UNCHANGED faults
       \/ /\ why \in {"spawn_err", "nonzero"}
          /\ is_initialized
          /\ faults < MaxFaults
          /\ faults' = faults + 1
    /\ last_update_time' = now
    /\ EndCycle(t, FALSE)
    /\ UNCHANGED << is_running, should_stop, total_processed, total_accepted,
                    total_denied >>
    /\ UNCHANGED << cacheVars, is_initialized, status, migrated_ok, op, now, apartVars >>

\* GoIntegration::get_accepted_products (go_integration.rs:113-135) as the
\* first statement of process_accepted_products (lib.rs:306, 433): not
\* initialized, the process not started, or a non-zero exit code end the
\* cycle with Err through the two `?`.
FetchFail(t, why) ==
    /\ pc[t] = "fetch"
    /\ \/ why = "not_initialized" /\ ~is_initialized /\ UNCHANGED faults
       \/ /\ why \in {"spawn_err", "nonzero"}
          /\ is_initialized
          /\ faults < MaxFaults
          /\ faults' = faults + 1
    /\ EndCycle(t, FALSE)
    /\ UNCHANGED << svcVars, cacheVars, is_initialized, status, migrated_ok,
                    op, now, apartVars >>

\* get_accepted_products returned Ok(list) (lib.rs:306-317, 433-444): an
\* empty list returns Ok(()) at once, to the cache reset.
FetchOk(t) ==
    /\ pc[t] = "fetch"
    /\ is_initialized
    /\ accepted_products' = [accepted_products EXCEPT ![t] = FetchedProducts]
    /\ Goto(t, IF FetchedProducts = << >> THEN "reset" ELSE "migrate")
    /\ UNCHANGED << svcVars, cacheVars, goVars, processed_count,
                    accepted_count, denied_count, op, wake_at, now, apartVars, cycle_log >>

\* One turn of the for loop (lib.rs:320-336, 447-463): migrate_product
\* (go_integration.rs:84-110) on the next product.  Exit code 0 is
\* Ok(true), and the backend has moved the record to the main table.
Migrate(t, outcome) ==
    /\ pc[t] = "migrate"
    /\ LET r == accepted_products[t][processed_count[t] + 1]
           c == MigrateCounts(t, LocalCounts(t), outcome)
       IN  /\ \/ /\ outcome = "true"
                 /\ is_initialized
                 /\ status' = [status EXCEPT ![r] = "migrated"]
                 /\ migrated_ok' = [migrated_ok EXCEPT ![r] = @ + 1]
                 /\ UNCHANGED faults
              \/ /\ outcome = "false"
                 /\ is_initialized
                 /\ faults < MaxFaults
                 /\ faults' = faults + 1
                 /\ UNCHANGED << status, migrated_ok >>
              \/ /\ outcome = "err"
                 /\ \/ ~is_initialized /\ UNCHANGED faults
                    \/ /\ is_initialized
                       /\ faults < MaxFaults
                       /\ faults' = faults + 1
                 /\ UNCHANGED << status, migrated_ok >>
           /\ processed_count' = [processed_count EXCEPT ![t] = c.processed]
           /\ accepted_count' = [accepted_count EXCEPT ![t] = c.accepted]
           /\ denied_count' = [denied_count EXCEPT ![t] = c.denied]
           /\ Goto(t, IF processed_count[t] + 1 = Len(accepted_products[t])
                      THEN "stats" ELSE "migrate")
    /\ UNCHANGED << svcVars, cacheVars, is_initialized, accepted_products,
                    op, wake_at, now, apartVars, cycle_log >>

\* "Update statistics" (lib.rs:339-347, 466-474), under the three write locks.
UpdateStats(t) ==
    /\ pc[t] = "stats"
    /\ LET tot == UpdateStatistics(t,
                    << total_processed, total_accepted, total_denied >>,
                    LocalCounts(t))
       IN  /\ total_processed' = tot[1]
           /\ total_accepted' = tot[2]
           /\ total_denied' = tot[3]
    /\ Goto(t, "reset")
    /\ UNCHANGED << is_running, should_stop, last_update_time >>
    /\ UNCHANGED << cacheVars, goVars, cycleVars, op, wake_at, now, apartVars, cycle_log >>

\* Faulty variant of Reset: a loop that finds the stop flag set gives the cycle up.
ResetUnlessStopped(t) ==
    /\ pc[t] = "reset"
    /\ IF IsLoop(t) /\ should_stop
       THEN /\ EndCycle(t, FALSE)
            /\ UNCHANGED cacheVars
       ELSE /\ perform_daily_cache_reset
            /\ Goto(t, "stamp")
            /\ UNCHANGED << cycleVars, wake_at, cycle_log, call >>
    /\ UNCHANGED << svcVars, goVars, op, now, apartVars >>

\* perform_hourly_update, lib.rs:291/418: the cache reset.
Reset(t) ==
    /\ pc[t] = "reset"
    /\ perform_daily_cache_reset
    /\ Goto(t, "stamp")
    /\ UNCHANGED << svcVars, goVars, cycleVars, op, wake_at, now, apartVars, cycle_log,
                    call >>

\* perform_hourly_update, lib.rs:294-298/421-425: last_update_time = now,
\* and Ok(()).
Stamp(t) ==
    /\ pc[t] = "stamp"
    /\ last_update_time' = now
    /\ EndCycle(t, TRUE)
    /\ UNCHANGED << is_running, should_stop, total_processed, total_accepted,
                    total_denied >>
    /\ UNCHANGED << cacheVars, goVars, op, now, apartVars >>

(***************************************************************************)
(* The statistics update lock by lock, and get_service_stats.  The three   *)
(* counters are the only locks of the service a task holds while it waits  *)
(* for another one; every other guard is dropped within its statement.     *)
(***************************************************************************)
\* The counter locks task t holds.
HeldBy(t) == { k \in CounterLocks : counter_lock[k] = t }

\* Faulty variant of StatsLockOrder: the service's own cycle takes the locks
\* in the opposite order.
StatsLockOrderByTask(t) ==
    IF IsLoop(t)
    THEN << "total_processed", "total_accepted", "total_denied" >>
    ELSE << "total_denied", "total_accepted", "total_processed" >>

\* "Update statistics", lib.rs:340-342 and 467-469: the order in which the
\* three write() calls are made by task t.
StatsLockOrder(t) ==
    << "total_processed", "total_accepted", "total_denied" >>

\* The lock task t asks for next at "Update statistics".
NextLock(t) == StatsLockOrder(t)[Cardinality(HeldBy(t)) + 1]

\* One write().await of "Update statistics" returns the guard: the lock is
\* free, and t holds the locks before it.
StatsLock(t) ==
    /\ pc[t] = "stats"
    /\ Cardinality(HeldBy(t)) < Cardinality(CounterLocks)
    /\ counter_lock[NextLock(t)] = 0
    /\ counter_lock' = [counter_lock EXCEPT ![NextLock(t)] = t]
    /\ UNCHANGED << svcVars, cacheVars, goVars, cycleVars, taskVars, now,
                    cycle_log, configVars, backendVars, argVars, snapshot,
                    productVars >>

\* Faulty variant of StatsWrite: last_update_time is stamped along with the
\* counters, before the cache is reset.
StatsWriteAndStamp(t) ==
    /\ pc[t] = "stats"
    /\ HeldBy(t) = CounterLocks
    /\ LET tot == UpdateStatistics(t,
                    << total_processed, total_accepted, total_denied >>,
                    LocalCounts(t))
       IN  /\ total_processed' = tot[1]
           /\ total_accepted' = tot[2]
           /\ total_denied' = tot[3]
    /\ counter_lock' = [k \in CounterLocks |-> 0]
    /\ last_update_time' = now
    /\ Goto(t, "reset")
    /\ UNCHANGED << is_running, should_stop >>
    /\ UNCHANGED << cacheVars, goVars, cycleVars, op, wake_at, now,
                    cycle_log, configVars, backendVars, argVars, snapshot,
                    productVars >>

\* "Update statistics", lib.rs:344-347 and 471-474: with the three guards in
\* hand the cycle's counts are added, and the block's end drops the guards.
StatsWrite(t) ==
    /\ pc[t] = "stats"
    /\ HeldBy(t) = CounterLocks
    /\ LET tot == UpdateStatistics(t,
                    << total_processed, total_accepted, total_denied >>,
                    LocalCounts(t))
       IN  /\ total_processed' = tot[1]
           /\ total_accepted' = tot[2]
           /\ total_denied' = tot[3]
    /\ counter_lock' = [k \in CounterLocks |-> 0]
    /\ Goto(t, "reset")
    /\ UNCHANGED << is_running, should_stop, last_update_time >>
    /\ UNCHANGED << cacheVars, goVars, cycleVars, op, wake_at, now,
                    cycle_log, configVars, backendVars, argVars, snapshot,
                    productVars >>

\* get_service_stats, lib.rs:230: is_running is read.
GetStatsRunning(c) ==
    /\ Call(c, "get_service_stats")
    /\ snapshot' = [snapshot EXCEPT ![c] =
                        [NoStats EXCEPT !.is_running = is_running]]
    /\ Goto(c, "read_last_update_time")
    /\ UNCHANGED << svcVars, cacheVars, goVars, cycleVars, wake_at, now,
                    cycle_log, configVars, backendVars, argVars,
                    counter_lock, productVars >>

\* get_service_stats, lib.rs:231-244: the next field is read under its own
\* read guard, which a writer's guard keeps waiting; after the last one the
\* cache's and the backend's statistics are read and the value is built.
GetStatsRead(c, field) ==
    /\ pc[c] = "read_" \o field
    /\ field \in CounterLocks => counter_lock[field] = 0
    /\ snapshot' = [snapshot EXCEPT ![c][field] =
                        CASE field = "last_update_time" -> last_update_time
                          [] field = "total_processed" -> total_processed
                          [] field = "total_accepted" -> total_accepted
                          [] field = "total_denied" -> total_denied]
    /\ Goto(c, CASE field = "last_update_time" -> "read_total_processed"
                 [] field = "total_processed" -> "read_total_accepted"
                 [] field = "total_accepted" -> "read_total_denied"
                 [] field = "total_denied" -> "stats_built")
    /\ UNCHANGED << svcVars, cacheVars, goVars, cycleVars, op, wake_at, now,
                    cycle_log, configVars, backendVars, argVars,
                    counter_lock, productVars >>

\* get_service_stats, lib.rs:236-244: the ServiceStats value goes to the
\* caller.
GetStatsReturn(c) ==
    /\ pc[c] = "stats_built"
    /\ Goto(c, "idle")
    /\ op' = [op EXCEPT ![c] = "none"]
    /\ snapshot' = [snapshot EXCEPT ![c] = NoStats]
    /\ UNCHANGED << svcVars, cacheVars, goVars, cycleVars, wake_at, now,
                    cycle_log, configVars, backendVars, argVars,
                    counter_lock, productVars >>

StatsFields == << "last_update_time", "total_processed", "total_accepted",
                  "total_denied" >>

(***************************************************************************)
(* The specifications.  Next is the whole service; the two specifications  *)
(* below it are the service in two environments, each a part of Next.      *)
(***************************************************************************)
FetchFailures == {"not_initialized", "spawn_err", "nonzero"}
MigrateOutcomes == {"true", "false", "err"}

\* The steps of a cycle, by a forced call or by a loop.
CycleStep(t) ==
    \/ \E why \in FetchFailures : FetchFail(t, why)
    \/ FetchOk(t)
    \/ \E outcome \in MigrateOutcomes : Migrate(t, outcome)
    \/ UpdateStats(t)
    \/ Reset(t)
    \/ Stamp(t)

\* The scheduler under start() and stop() from NumCallers tasks, with no
\* record approved and no cache client.
NextLifecycle ==
    \/ \E c \in Callers : StartCheck(c)
    \/ \E c \in Callers : StartClear(c)
    \/ \E c \in Callers : StartSpawn(c)
    \/ \E c \in Callers : StopCheck(c)
    \/ \E c \in Callers : StopSet(c)
    \/ \E c \in Callers : StopMark(c)
    \/ \E c \in Callers : Return(c)
    \/ \E l \in Loops : LoopCheckStop(l)
    \/ \E l \in Loops : LoopGate(l)
    \/ \E l \in Loops : LoopWake(l)
    \/ \E l \in Loops, why \in FetchFailures : FetchFail(l, why)
    \/ \E l \in Loops : FetchOk(l)
    \/ \E l \in Loops : Reset(l)
    \/ \E l \in Loops : Stamp(l)
    \/ Tick

SpecLifecycle == Init /\ [][NextLifecycle]_vars

\* The cycles: one task that starts the service and forces updates, the
\* loop it started, the review path, cache clients and the clock.
Operator == CHOOSE c \in Callers : \A d \in Callers : c <= d

Next ==
    \/ StartCheck(Operator)
    \/ StartClear(Operator)
    \/ StartSpawn(Operator)
    \/ Force(Operator)
    \/ Return(Operator)
    \/ \E l \in Loops : LoopCheckStop(l)
    \/ \E l \in Loops : LoopGate(l)
    \/ \E l \in Loops : LoopWake(l)
    \/ \E t \in Tasks, why \in FetchFailures : FetchFail(t, why)
    \/ \E t \in Tasks : FetchOk(t)
    \/ \E t \in Tasks, outcome \in MigrateOutcomes : Migrate(t, outcome)
    \/ \E t \in Tasks : UpdateStats(t)
    \/ \E t \in Tasks : Reset(t)
    \/ \E t \in Tasks : Stamp(t)
    \/ \E r \in Records : Review(r)
    \/ \E k \in OneKey : gets < MaxGets /\ CacheGet(Operator, k)
    \/ \E k \in OneKey, v \in OneValue : CacheInsert(Operator, k, v)
    \/ Tick

Spec == Init /\ [][Next]_vars

\* One task that starts and stops the service, the loops it started with
\* their cycles over the backend's records, the review path and the clock.
NextStop ==
    \/ StartCheck(Operator)
    \/ StartClear(Operator)
    \/ StartSpawn(Operator)
    \/ StopCheck(Operator)
    \/ StopSet(Operator)
    \/ StopMark(Operator)
    \/ Return(Operator)
    \/ \E l \in Loops : LoopCheckStop(l)
    \/ \E l \in Loops : LoopGate(l)
    \/ \E l \in Loops : LoopWake(l)
    \/ \E l \in Loops, why \in FetchFailures : FetchFail(l, why)
    \/ \E l \in Loops : FetchOk(l)
    \/ \E l \in Loops, outcome \in MigrateOutcomes : Migrate(l, outcome)
    \/ \E l \in Loops : UpdateStats(l)
    \/ \E l \in Loops : Reset(l)
    \/ \E l \in Loops : Stamp(l)
    \/ \E r \in Records : Review(r)
    \/ Tick

SpecStop == Init /\ [][NextStop]_vars

(***************************************************************************)
(* ProductData (lib.rs:18-91).                                             *)
(***************************************************************************)
\* Values of the i32 approval_status: the three the comment at lib.rs:33
\* names, their neighbours and the ends of the type's range.
I32Max == 2147483647
I32Min == -I32Max - 1
ApprovalStatuses == {I32Min, -2, -1, 0, 1, 2, I32Max}

ProductNames == {"whey", "creatine"}
ProductSlugs == {"slug"}
ProductCategories == {"protein", "pre-workout"}
Submitters == {"u1", "u2"}

\* ProductData::new, lib.rs:45-76.
ProductData_new(name, slug, category, submitted_by) ==
    [name |-> name, slug |-> slug, category |-> category,
     submitted_by |-> submitted_by, approval_status |-> 0, fresh |-> TRUE]

\* lib.rs:79-81.
is_approved(p) == p.approval_status = 1

\* Faulty variant of is_pending: whatever is neither approved nor denied
\* is pending.
is_pending_unless_reviewed(p) == p.approval_status \notin {-1, 1}

\* lib.rs:84-86.
is_pending(p) == p.approval_status = 0

\* lib.rs:89-91.
is_denied(p) == p.approval_status = -1

\* A record is built by ProductData::new.
ProductNew(name, slug, category, submitted_by) ==
    /\ product' = ProductData_new(name, slug, category, submitted_by)
    /\ verdict' = NoVerdict
    /\ UNCHANGED << svcVars, cacheVars, goVars, cycleVars, taskVars, now,
                    cycle_log, configVars, backendVars, argVars, lockVars >>

\* approval_status is a public field (lib.rs:34): a value is assigned to it,
\* as the tests do and as a row read from the temporary table carries it.
SetApprovalStatus(s) ==
    /\ product # NoProduct
    /\ product' = [product EXCEPT !.approval_status = s, !.fresh = FALSE]
    /\ verdict' = NoVerdict
    /\ UNCHANGED << svcVars, cacheVars, goVars, cycleVars, taskVars, now,
                    cycle_log, configVars, backendVars, argVars, lockVars >>

\* The three predicates are asked of the record at hand.
AskStatus ==
    /\ product # NoProduct
    /\ verdict' = [asked |-> TRUE, is_denied |-> is_denied(product),
                   is_pending |-> is_pending(product),
                   is_approved |-> is_approved(product)]
    /\ UNCHANGED << svcVars, cacheVars, goVars, cycleVars, taskVars, now,
                    cycle_log, configVars, backendVars, argVars, lockVars,
                    product >>

\* A record fresh from ProductData::new, whatever it was given.
InitProduct ==
    /\ InitService
    /\ update_interval_hours = DefaultIntervalHours
    /\ command = "none"
    /\ payload = << >>
    /\ argv = << >>
    /\ product \in { ProductData_new(n, sl, c, u) :
                        n \in ProductNames, sl \in ProductSlugs,
                        c \in ProductCategories, u \in Submitters }
    /\ verdict = NoVerdict

NextProduct ==
    \/ \E n \in ProductNames, sl \in ProductSlugs, c \in ProductCategories,
          u \in Submitters : ProductNew(n, sl, c, u)
    \/ \E st \in ApprovalStatuses : SetApprovalStatus(st)
    \/ AskStatus

SpecProduct == InitProduct /\ [][NextProduct]_vars

\* The service lock by lock: one task that starts the service and forces
\* updates, a second one that takes get_service_stats snapshots, the
\* loops with their cycles, the review path and the clock's first hour.
Reader == CHOOSE c \in Callers : c # Operator

\* The clock of this specification: the first hour passes in one step.
HourTick == now < SecsPerHour /\ Advance(SecsPerHour)

NextLocks ==
    \/ StartCheck(Operator)
    \/ StartClear(Operator)
    \/ StartSpawn(Operator)
    \/ Force(Operator)
    \/ Return(Operator)
    \/ GetStatsRunning(Reader)
    \/ \E i \in 1..Len(StatsFields) : GetStatsRead(Reader, StatsFields[i])
    \/ GetStatsReturn(Reader)
    \/ \E l \in Loops : LoopCheckStop(l)
    \/ \E l \in Loops : LoopGate(l)
    \/ \E l \in Loops : LoopWake(l)
    \/ \E t \in Tasks, why \in FetchFailures : FetchFail(t, why)
    \/ \E t \in Tasks : FetchOk(t)
    \/ \E t \in Tasks, outcome \in MigrateOutcomes : Migrate(t, outcome)
    \/ \E t \in Tasks : StatsLock(t)
    \/ \E t \in Tasks : StatsWrite(t)
    \/ \E t \in Tasks : Reset(t)
    \/ \E t \in Tasks : Stamp(t)
    \/ \E r \in Records : Review(r)
    \/ HourTick

SpecLocks == Init /\ [][NextLocks]_vars

\* All five operations lock by lock: one task that starts and stops the
\* service and forces updates, a second one that takes snapshots, the loops
\* with their cycles, one record under review and the clock's first hour.
OneRecord == CHOOSE r \in Records : \A q \in Records : r <= q

NextCalls ==
    \/ StartCheck(Operator)
    \/ StartClear(Operator)
    \/ StartSpawn(Operator)
    \/ StopCheck(Operator)
    \/ StopSet(Operator)
    \/ StopMark(Operator)
    \/ Force(Operator)
    \/ Return(Operator)
    \/ GetStatsRunning(Reader)
    \/ \E i \in 1..Len(StatsFields) : GetStatsRead(Reader, StatsFields[i])
    \/ GetStatsReturn(Reader)
    \/ \E l \in Loops : LoopCheckStop(l)
    \/ \E l \in Loops : LoopGate(l)
    \/ \E l \in Loops : LoopWake(l)
    \/ \E t \in Tasks, why \in FetchFailures : FetchFail(t, why)
    \/ \E t \in Tasks : FetchOk(t)
    \/ \E t \in Tasks, outcome \in MigrateOutcomes : Migrate(t, outcome)
    \/ \E t \in Tasks : StatsLock(t)
    \/ \E t \in Tasks : StatsWrite(t)
    \/ \E t \in Tasks : Reset(t)
    \/ \E t \in Tasks : Stamp(t)
    \/ Review(OneRecord)
    \/ HourTick

SpecCalls == Init /\ [][NextCalls]_vars

\* One task that initializes the service and forces updates, the review
\* path and the clock.
\* The CacheManager alone, used by one client task: every operation on the
\* product cache over Keys and Values, with the clock advancing in steps
\* short enough to tell the idle limit from the time to live.
MaxCacheTime == MaxCacheTicks * CacheTickSecs

CacheTick == now + CacheTickSecs <= MaxCacheTime /\ Advance(CacheTickSecs)

Batches ==
    UNION { [1..n -> Keys \X Values] : n \in 0..MaxBatch }

NextCache ==
    \/ CacheInit(Operator)
    \/ \E k \in Keys : gets < MaxCacheGets /\ CacheGet(Operator, k)
    \/ \E k \in Keys, v \in Values : CacheInsert(Operator, k, v)
    \/ \E entries \in Batches : CacheInsertBatch(Operator, entries)
    \/ \E k \in Keys : CacheRemove(Operator, k)
    \/ CacheClear(Operator)
    \/ CacheReset(Operator)
    \/ \E k \in OneKey, v \in OneValue : CacheInsertAdmin(Operator, k, v)
    \/ CacheClearAdmin(Operator)
    \/ CacheShutdown(Operator)
    \/ Return(Operator)
    \/ CacheTick

SpecCache == Init /\ [][NextCache]_vars

(***************************************************************************)
(* GoIntegration called directly, by tasks that share it.                  *)
(***************************************************************************)
\* The methods that start with the is_initialized check.
GoMethods ==
    {"get_accepted_products", "migrate_product", "check_product_exists",
     "check_brand_exists"}

\* What the external process did: exit code 0, another exit code, or it
\* could not be run (spawn()? / wait_with_output()?, go_integration.rs:213-214).
GoExits == {"zero", "nonzero", "spawn_err"}

\* Task c returns result; key is how its external process ended, "" when it
\* started none.
GoResult(c, label, result, exit) ==
    /\ pc' = [pc EXCEPT ![c] = label]
    /\ call' = [call EXCEPT ![c] =
                    [NoCall EXCEPT !.key = exit, !.value = Some(result)]]

\* GoIntegration::initialize (go_integration.rs:59-81).  It takes &mut self,
\* so no other call on the object is running; ok is whether the binary was
\* found and verified.
GoInitialize(c, ok) ==
    /\ \A t \in Tasks : pc[t] \in {"none", "idle"}
    /\ Call(c, "go_initialize")
    /\ is_initialized' = IF ok THEN TRUE ELSE is_initialized
    /\ GoResult(c, "ret_ok", IF ok THEN "true" ELSE "false", "")
    /\ UNCHANGED << svcVars, cacheCore, status, faults, migrated_ok,
                    cycleVars, wake_at, now, cycle_log, configVars,
                    backendVars, argVars,
                    lockVars, productVars >>

\* GoIntegration::shutdown (go_integration.rs:266-273).
GoShutdown(c) ==
    /\ Call(c, "go_shutdown")
    /\ is_initialized' = FALSE
    /\ GoResult(c, "ret_ok", "unit", "")
    /\ UNCHANGED << svcVars, cacheCore, status, faults, migrated_ok,
                    cycleVars, wake_at, now, cycle_log, configVars,
                    backendVars, argVars,
                    lockVars, productVars >>

\* Faulty variant of GoEnter: the call is counted before the
\* initialization check.
GoEnterCountsFirst(c, name) ==
    /\ Call(c, name)
    /\ go_calls < MaxGoCalls
    /\ go_calls' = go_calls + 1
    /\ IF is_initialized
       THEN /\ pc' = [pc EXCEPT ![c] = "go_exec"]
            /\ UNCHANGED call
       ELSE GoResult(c, "ret_err", "not_initialized", "")
    /\ UNCHANGED << successful_inserts, failed_inserts, migrate_done >>
    /\ UNCHANGED << svcVars, cacheCore, goVars, cycleVars, wake_at, now,
                    cycle_log, configVars, argVars,
                    lockVars, productVars >>

\* The head of a method of GoMethods (go_integration.rs:85-89, 114-118,
\* 145-149, 165-169): Err when not initialized, else go_calls + 1 and the
\* external process is started.
GoEnter(c, name) ==
    /\ Call(c, name)
    /\ IF is_initialized
       THEN /\ go_calls < MaxGoCalls
            /\ go_calls' = go_calls + 1
            /\ pc' = [pc EXCEPT ![c] = "go_exec"]
            /\ UNCHANGED call
       ELSE /\ GoResult(c, "ret_err", "not_initialized", "")
            /\ UNCHANGED go_calls
    /\ UNCHANGED << successful_inserts, failed_inserts, migrate_done >>
    /\ UNCHANGED << svcVars, cacheCore, goVars, cycleVars, wake_at, now,
                    cycle_log, configVars, argVars,
                    lockVars, productVars >>

\* Faulty variant of GoExit: a migrate_product whose process could not be
\* run counts nothing.
GoExitErrUncounted(c, exit) ==
    /\ pc[c] = "go_exec"
    /\ IF op[c] = "migrate_product"
       THEN /\ successful_inserts' = IF exit = "zero"
                                     THEN successful_inserts + 1
                                     ELSE successful_inserts
            /\ failed_inserts' = IF exit = "nonzero" THEN failed_inserts + 1
                                 ELSE failed_inserts
            /\ migrate_done' = migrate_done + 1
            /\ GoResult(c, IF exit = "spawn_err" THEN "ret_err" ELSE "ret_ok",
                        IF exit = "zero" THEN "true"
                        ELSE IF exit = "nonzero" THEN "false" ELSE "err",
                        exit)
       ELSE /\ UNCHANGED << successful_inserts, failed_inserts,
                            migrate_done >>
            /\ IF op[c] = "get_accepted_products"
               THEN GoResult(c, IF exit = "zero" THEN "ret_ok" ELSE "ret_err",
                             IF exit = "zero" THEN "list" ELSE "err", exit)
               ELSE GoResult(c,
                        IF exit = "spawn_err" THEN "ret_err" ELSE "ret_ok",
                        IF exit = "zero" THEN "true"
                        ELSE IF exit = "nonzero" THEN "false" ELSE "err",
                        exit)
    /\ UNCHANGED << svcVars, cacheCore, goVars, cycleVars, op, wake_at, now,
                    cycle_log, configVars, go_calls, argVars,
                    lockVars, productVars >>

\* The external process has ended and the method returns:
\* migrate_product (go_integration.rs:94-109), get_accepted_products
\* (go_integration.rs:120-134), check_product_exists and check_brand_exists
\* (go_integration.rs:154-160, 173-179).
GoExit(c, exit) ==
    /\ pc[c] = "go_exec"
    /\ IF op[c] = "migrate_product"
       THEN /\ successful_inserts' = IF exit = "zero"
                                     THEN successful_inserts + 1
                                     ELSE successful_inserts
            /\ failed_inserts' = IF exit = "zero" THEN failed_inserts
                                 ELSE failed_inserts + 1
            /\ migrate_done' = migrate_done + 1
            /\ GoResult(c, IF exit = "spawn_err" THEN "ret_err" ELSE "ret_ok",
                        IF exit = "zero" THEN "true"
                        ELSE IF exit = "nonzero" THEN "false" ELSE "err",
                        exit)
       ELSE /\ UNCHANGED << successful_inserts, failed_inserts,
                            migrate_done >>
            /\ IF op[c] = "get_accepted_products"
               THEN GoResult(c, IF exit = "zero" THEN "ret_ok" ELSE "ret_err",
                             IF exit = "zero" THEN "list" ELSE "err", exit)
               ELSE GoResult(c,
                        IF exit = "spawn_err" THEN "ret_err" ELSE "ret_ok",
                        IF exit = "zero" THEN "true"
                        ELSE IF exit = "nonzero" THEN "false" ELSE "err",
                        exit)
    /\ UNCHANGED << svcVars, cacheCore, goVars, cycleVars, op, wake_at, now,
                    cycle_log, configVars, go_calls, argVars,
                    lockVars, productVars >>

(***************************************************************************)
(* The command line of the backend executable.  A string is the sequence   *)
(* of its characters; a stretch of fixed text without whitespace, quote or *)
(* flag of its own counts as one character.                                *)
(***************************************************************************)
Chars == {"a", " ", "'", "-"}

Payloads == UNION { [1..n -> Chars] : n \in 0..MaxPayload }

\* str::split_whitespace: the maximal stretches without whitespace, cur
\* being the stretch that is open.
RECURSIVE Words(_, _)
Words(s, cur) ==
    IF s = << >> THEN (IF cur = << >> THEN << >> ELSE << cur >>)
    ELSE IF Head(s) = " "
         THEN (IF cur = << >> THEN << >> ELSE << cur >>)
                  \o Words(Tail(s), << >>)
         ELSE Words(Tail(s), Append(cur, Head(s)))

split_whitespace(s) == Words(s, << >>)

\* GoIntegration::escape_json_for_shell (go_integration.rs:245-247):
\* every ' becomes '"'"'.
RECURSIVE escape_json_for_shell(_)
escape_json_for_shell(json) ==
    IF json = << >> THEN << >>
    ELSE (IF Head(json) = "'" THEN << "'", "\"", "'", "\"", "'" >>
          ELSE << Head(json) >>) \o escape_json_for_shell(Tail(json))

\* GoIntegration::generate_product_json (go_integration.rs:250-252) for a
\* product named name: serde_json writes the characters of Chars as they
\* are, between the fixed text of the other fields.
generate_product_json(name) ==
    << "{\"category\":\"c\",\"name\":\"" >> \o name \o << "\",\"slug\":\"s\"}" >>

\* GoIntegration::execute_go_command (go_integration.rs:207-222): the
\* argument vector Command::args is given.
execute_go_command(args) == split_whitespace(args)

\* GoIntegration::execute_go_with_json (go_integration.rs:225-230).
execute_go_with_json(cmd, json_payload) ==
    execute_go_command(
        << cmd, " ", "--json", " ", "'" >>
            \o escape_json_for_shell(json_payload) \o << "'" >>)

\* The values of check_product_exists' other arguments.
Brand  == << "a" >>
Flavor == << "a", "a" >>
Year   == << "a", "a", "a" >>

\* The argument vector of each method for the payload value p:
\* migrate_product (go_integration.rs:91-94), check_product_exists
\* (go_integration.rs:151-154), check_brand_exists (go_integration.rs:171-173).
ArgvOf(method, p) ==
    IF method = "migrate_product"
    THEN execute_go_with_json("migrate-product", generate_product_json(p))
    ELSE IF method = "check_product_exists"
    THEN execute_go_command(
            << "check-product", " ", "--name", " " >> \o p
                \o << " ", "--brand", " " >> \o Brand
                \o << " ", "--flavor", " " >> \o Flavor
                \o << " ", "--year", " " >> \o Year)
    ELSE execute_go_command(<< "check-brand", " ", "--name", " " >> \o p)

PayloadMethods ==
    {"migrate_product", "check_product_exists", "check_brand_exists"}

\* A method builds its command line for the payload and starts the
\* executable with it.
ExecuteGo(method) ==
    /\ command = "none"
    /\ command' = method
    /\ argv' = ArgvOf(method, payload)
    /\ UNCHANGED << svcVars, cacheVars, goVars, cycleVars, taskVars, now,
                    cycle_log, configVars, backendVars, payload,
                    lockVars, productVars >>

\* The method is called with any payload value.
InitArgs ==
    /\ InitService
    /\ update_interval_hours = DefaultIntervalHours
    /\ command = "none"
    /\ payload \in Payloads
    /\ argv = << >>
    /\ product = NoProduct
    /\ verdict = NoVerdict

NextArgs == \E method \in PayloadMethods : ExecuteGo(method)

SpecArgs == InitArgs /\ [][NextArgs]_vars

NextBackend ==
    \/ \E c \in Callers, ok \in BOOLEAN : GoInitialize(c, ok)
    \/ \E c \in Callers : GoShutdown(c)
    \/ \E c \in Callers, name \in GoMethods : GoEnter(c, name)
    \/ \E c \in Callers, exit \in GoExits : GoExit(c, exit)
    \/ \E c \in Callers : Return(c)

SpecBackend == Init /\ [][NextBackend]_vars

(***************************************************************************)
(* remove, clear and perform_daily_cache_reset statement by statement, for *)
(* calls that run at the same time on the runtime's worker threads.        *)
(***************************************************************************)
\* cache_manager.rs:129: had_key = product_cache.contains_key(key).
RemoveCheck(c, k) ==
    /\ pc[c] = "idle"
    /\ op' = [op EXCEPT ![c] = "remove"]
    /\ pc' = [pc EXCEPT ![c] = "remove_invalidate"]
    /\ call' = [call EXCEPT ![c] =
                    [key |-> k, value |-> None, batch |-> << >>,
                     had_key |-> contains_key(k)]]
    /\ UNCHANGED << svcVars, cacheCore, goVars, cycleVars, wake_at, now,
                    apartVars, cycle_log >>

\* cache_manager.rs:130: product_cache.invalidate(key).await.
RemoveInvalidate(c) ==
    /\ pc[c] = "remove_invalidate"
    /\ pc' = [pc EXCEPT ![c] = "remove_count"]
    /\ product_cache' = [product_cache EXCEPT ![call[c].key] = None]
    /\ modified_at' = [modified_at EXCEPT ![call[c].key] = 0]
    /\ accessed_at' = [accessed_at EXCEPT ![call[c].key] = 0]
    /\ UNCHANGED << admin_cache, entry_count, hit_count, miss_count,
                    eviction_count, last_reset_time, gets, call >>
    /\ UNCHANGED << svcVars, goVars, cycleVars, op, wake_at, now, apartVars,
                    cycle_log >>

\* cache_manager.rs:131-133: fetch_sub(1) if had_key; the call returns.  A
\* count below zero stands for the AtomicU64 wrapped around to 2^64 minus
\* as much.
RemoveCount(c) ==
    /\ pc[c] = "remove_count"
    /\ pc' = [pc EXCEPT ![c] = "ret_ok"]
    /\ entry_count' = IF call[c].had_key THEN entry_count - 1
                      ELSE entry_count
    /\ UNCHANGED << product_cache, admin_cache, hit_count, miss_count,
                    eviction_count, last_reset_time, modified_at,
                    accessed_at, gets, call >>
    /\ UNCHANGED << svcVars, goVars, cycleVars, op, wake_at, now, apartVars,
                    cycle_log >>

\* cache_manager.rs:138: product_cache.invalidate_all(), in clear() called
\* by a client (name = "clear") or by perform_daily_cache_reset
\* (cache_manager.rs:164).
ClearInvalidate(c, name) ==
    /\ pc[c] = "idle"
    /\ op' = [op EXCEPT ![c] = name]
    /\ pc' = [pc EXCEPT ![c] = "clear_store"]
    /\ product_cache' = [k \in Keys |-> None]
    /\ modified_at' = [k \in Keys |-> 0]
    /\ accessed_at' = [k \in Keys |-> 0]
    /\ UNCHANGED << admin_cache, entry_count, hit_count, miss_count,
                    eviction_count, last_reset_time, gets, call >>
    /\ UNCHANGED << svcVars, goVars, cycleVars, wake_at, now, apartVars,
                    cycle_log >>

\* cache_manager.rs:139: entry_count.store(0); clear() returns.
ClearStore(c) ==
    /\ pc[c] = "clear_store"
    /\ pc' = [pc EXCEPT ![c] = IF op[c] = "clear" THEN "ret_ok"
                               ELSE "reset_counters"]
    /\ entry_count' = 0
    /\ UNCHANGED << product_cache, admin_cache, hit_count, miss_count,
                    eviction_count, last_reset_time, modified_at,
                    accessed_at, gets, call >>
    /\ UNCHANGED << svcVars, goVars, cycleVars, op, wake_at, now, apartVars,
                    cycle_log >>

\* cache_manager.rs:167-172: the counters' entries and last_reset_time are
\* written; perform_daily_cache_reset returns.
ResetCounters(c) ==
    /\ pc[c] = "reset_counters"
    /\ pc' = [pc EXCEPT ![c] = "ret_ok"]
    /\ hit_count' = Some(0)
    /\ miss_count' = Some(0)
    /\ eviction_count' = Some(0)
    /\ last_reset_time' = Some(now)
    /\ gets' = 0
    /\ UNCHANGED << product_cache, admin_cache, entry_count, modified_at,
                    accessed_at, call >>
    /\ UNCHANGED << svcVars, goVars, cycleVars, op, wake_at, now, apartVars,
                    cycle_log >>

\* get_cache_stats, cache_manager.rs:180 and 203: total_entries is the
\* counter as loaded, memory_usage_bytes is 1024 times as much.
BytesPerEntry == 1024
memory_usage_bytes == entry_count * BytesPerEntry

\* A CacheManager on which every key of Keys was inserted once, each with
\* some value, and nothing else was called.
InitRace ==
    /\ InitAroundCache
    /\ product_cache \in [Keys -> { Some(v) : v \in Values }]
    /\ entry_count = Cardinality(Keys)
    /\ update_interval_hours = DefaultIntervalHours
    /\ command = "none"
    /\ payload = << >>
    /\ argv = << >>
    /\ product = NoProduct
    /\ verdict = NoVerdict

\* Callers that each make one call of insert, remove, clear or
\* perform_daily_cache_reset on that CacheManager, at the same time.
NextRace ==
    \/ \E c \in Callers, k \in Keys, v \in Values : InsertCheck(c, k, v)
    \/ \E c \in Callers : InsertStore(c)
    \/ \E c \in Callers : InsertCount(c)
    \/ \E c \in Callers, k \in Keys : RemoveCheck(c, k)
    \/ \E c \in Callers : RemoveInvalidate(c)
    \/ \E c \in Callers : RemoveCount(c)
    \/ \E c \in Callers, name \in {"clear", "perform_daily_cache_reset"} :
            ClearInvalidate(c, name)
    \/ \E c \in Callers : ClearStore(c)
    \/ \E c \in Callers : ResetCounters(c)

SpecRace == InitRace /\ [][NextRace]_vars

\* Callers that each call insert once on one CacheManager, at the same
\* time: the statements of the calls interleave in every order.
NextConcurrent ==
    \/ \E c \in Callers, k \in Keys, v \in Values : InsertCheck(c, k, v)
    \/ \E c \in Callers : InsertStore(c)
    \/ \E c \in Callers : InsertCount(c)

SpecConcurrent == Init /\ [][NextConcurrent]_vars

\* The service started and stopped as in SpecLifecycle, built with any
\* update interval (DailyUpdateServiceV2::new(config), lib.rs:140-153).
ConfigHours == 1..MaxIntervalHours

InitConfig ==
    /\ InitService
    /\ update_interval_hours \in ConfigHours
    /\ command = "none"
    /\ payload = << >>
    /\ argv = << >>
    /\ product = NoProduct
    /\ verdict = NoVerdict

SpecConfig == InitConfig /\ [][NextLifecycle]_vars

NextInit ==
    \/ \E go_ok \in BOOLEAN : Initialize(Operator, go_ok)
    \/ Force(Operator)
    \/ Return(Operator)
    \/ \E why \in FetchFailures : FetchFail(Operator, why)
    \/ FetchOk(Operator)
    \/ \E outcome \in MigrateOutcomes : Migrate(Operator, outcome)
    \/ UpdateStats(Operator)
    \/ Reset(Operator)
    \/ Stamp(Operator)
    \/ \E r \in Records : Review(r)
    \/ Tick

SpecInit == Init /\ [][NextInit]_vars

(***************************************************************************)
(* The claims.                                                             *)
(***************************************************************************)
Quiet == \A c \in Callers : pc[c] = "idle"
InCycle(t) == pc[t] \in {"fetch", "migrate", "stats", "reset", "stamp"}

\* C1: at most one supervising loop is alive at any time, for every
\* sequence of start() and stop() calls.
C1_AtMostOneLoop == Cardinality(LiveLoops) <= 1

C3_GateIffHour ==
    [][\A l \in Loops :
        /\ (pc[l] = "gate" /\ pc'[l] # "gate") =>
              /\ pc'[l] \in {"fetch", "sleep"}
              /\ (pc'[l] = "fetch") <=> (now - last_update_time >= SecsPerHour)
        /\ (pc[l] = "stamp" /\ pc'[l] # "stamp") =>
              /\ last_update_time' = now
              /\ pc'[l] = "sleep"
              /\ ~is_time_for_hourly_update(now', last_update_time')
      ]_vars

\* C3 witness: a natural cycle that began an hour or more after
\* last_update_time is about to stamp it.
C3_Witness ==
    \E l \in Loops :
        pc[l] = "stamp" /\ now - last_update_time >= SecsPerHour

\* C4: a cycle whose fetch fails (backend not initialized, process not
\* started, non-zero exit) ends there with an error: no cache reset, the
\* cache and its statistics, last_update_time and the three totals unchanged.
C4_FetchFailureAborts ==
    [][\A t \in Tasks :
        (/\ pc[t] = "fetch"
         /\ pc'[t] # "fetch"
         /\ (~is_initialized \/ faults' # faults)) =>
            /\ UNCHANGED cacheVars
            /\ UNCHANGED << last_update_time, total_processed,
                            total_accepted, total_denied >>
            /\ pc'[t] = IF IsLoop(t) THEN "sleep" ELSE "ret_err"
            /\ IsLoop(t) => wake_at'[t] = now + BackoffSecs
      ]_vars

\* C4 witness: a forced update has returned an error on a service whose
\* product cache holds an entry.
C4_Witness ==
    /\ pc[Operator] = "ret_err"
    /\ op[Operator] = "force"
    /\ product_cache["k1"] # None
    /\ entry_count = 1

C6_StopBounded ==
    /\ [](\A c \in Callers :
            /\ pc[c] = "stop_set" => ENABLED StopSet(c)
            /\ pc[c] = "stop_sleep" =>
                  /\ wake_at[c] <= now + StopGraceSecs
                  /\ now >= wake_at[c] => ENABLED StopMark(c))
    /\ [][\A c \in Callers :
            /\ (pc[c] = "idle" /\ op'[c] = "stop") =>
                  pc'[c] = IF is_running THEN "stop_set" ELSE "ret_ok"
            /\ (pc[c] = "stop_set" /\ pc'[c] # "stop_set") =>
                  should_stop' /\ pc'[c] = "stop_sleep"
            /\ (pc[c] = "stop_sleep" /\ pc'[c] # "stop_sleep") =>
                  ~is_running' /\ pc'[c] = "ret_ok"
         ]_vars

\* C6 witness: a stop() has returned with is_running = false while a loop
\* that never saw the flag is still asleep.
C6_Witness ==
    \E c \in Callers, l \in Loops :
        /\ pc[c] = "ret_ok"
        /\ op[c] = "stop"
        /\ ~is_running
        /\ should_stop
        /\ pc[l] = "sleep"

\* C7: once is_running is false and no start() or stop() is in progress,
\* every loop launched earlier terminates.  A loop terminates only by
\* reading should_stop = true, and with no call in progress only a later
\* stop() that finds is_running = true sets it: the claim requires the flag to
\* be set in every such state that still has a loop.
C7_StoppedLoopsTerminate ==
    (~is_running /\ Quiet) => (LiveLoops = {} \/ should_stop)

\* C8: a stop request does not interrupt a cycle: a loop ends only at its
\* stop check, with the flag set, and then starts no cycle; a cycle that has
\* begun goes on step by step to its end, or to its abort at a failed fetch,
\* whatever should_stop is.
C8_StopLeavesCycleAlone ==
    /\ [](\A l \in Loops : InCycle(l) => ENABLED CycleStep(l))
    /\ [][\A l \in Loops :
            /\ (Alive(l) /\ pc'[l] = "none") =>
                  pc[l] = "check_stop" /\ should_stop
            /\ (pc[l] = "check_stop" /\ pc'[l] # "check_stop") =>
                  pc'[l] = IF should_stop THEN "none" ELSE "gate"
            /\ (pc[l] = "fetch" /\ pc'[l] # "fetch") =>
                  IF ~is_initialized \/ faults' # faults
                  THEN pc'[l] = "sleep"
                  ELSE pc'[l] \in {"migrate", "reset"}
            /\ (pc[l] = "migrate" /\ pc'[l] # "migrate") => pc'[l] = "stats"
            /\ (pc[l] = "stats" /\ pc'[l] # "stats") => pc'[l] = "reset"
            /\ (pc[l] = "reset" /\ pc'[l] # "reset") => pc'[l] = "stamp"
            /\ (pc[l] = "stamp" /\ pc'[l] # "stamp") =>
                  pc'[l] = "sleep" /\ last_update_time' = now
         ]_vars

\* C8 witness: with the stop flag set, a natural cycle that has updated the
\* counters is about to reset the cache.
C8_Witness ==
    \E l \in Loops :
        /\ should_stop
        /\ pc[l] = "reset"
        /\ total_processed > 0

\* C9: force_hourly_update goes straight to a cycle, whatever the time since
\* last_update_time and whether or not the service runs, and the cycle of
\* the service (lib.rs:284-351) does to the totals, the cache and
\* last_update_time what the cycle of the task (lib.rs:411-478) does.
CountsOf(n) == [processed : 0..n, accepted : 0..n, denied : 0..n]

TotalsOf(n) == (0..n) \X (0..n) \X (0..n)

SameCycleCode ==
    /\ \A c \in CountsOf(MaxRecords), o \in MigrateOutcomes :
          ServiceMigrateCounts(c, o) = TaskMigrateCounts(c, o)
    /\ \A tot \in TotalsOf(MaxRecords), c \in CountsOf(MaxRecords) :
          ServiceUpdateStatistics(tot, c) = TaskUpdateStatistics(tot, c)

C9_ForceIsACycle ==
    /\ [](SameCycleCode)
    /\ [](\A c \in Callers : pc[c] = "idle" => ENABLED Force(c))
    /\ [][\A c \in Callers :
            /\ (pc[c] = "idle" /\ op'[c] = "force") => pc'[c] = "fetch"
            /\ (op[c] = "force" /\ pc[c] = "stats" /\ pc'[c] # "stats") =>
                  /\ total_processed' = total_processed + processed_count[c]
                  /\ total_accepted' = total_accepted + accepted_count[c]
                  /\ total_denied' = total_denied + denied_count[c]
            /\ (op[c] = "force" /\ pc[c] = "reset" /\ pc'[c] # "reset") =>
                  /\ product_cache' = [k \in Keys |-> None]
                  /\ entry_count' = 0
                  /\ StatOf(hit_count') = 0 /\ StatOf(miss_count') = 0
                  /\ StatOf(eviction_count') = 0
                  /\ last_reset_time' = Some(now)
            /\ (op[c] = "force" /\ pc[c] = "stamp" /\ pc'[c] # "stamp") =>
                  last_update_time' = now /\ pc'[c] = "ret_ok"
         ]_vars

\* C9 witness: on a service that is not running, less than an hour after
\* last_update_time, a forced cycle that migrated a record is about to stamp.
C9_Witness ==
    /\ op[Operator] = "force"
    /\ pc[Operator] = "stamp"
    /\ ~is_running
    /\ now - last_update_time < SecsPerHour
    /\ total_accepted > 0

\* C10: last_update_time never decreases, and it changes only in the last
\* step of a cycle that succeeded, which sets it to the current time.
C10_UpdateTimeMonotone ==
    [][/\ last_update_time' >= last_update_time
       /\ last_update_time' # last_update_time =>
            \E t \in Tasks :
                /\ pc[t] = "stamp"
                /\ pc'[t] = IF IsLoop(t) THEN "sleep" ELSE "ret_ok"
                /\ last_update_time' = now
      ]_vars

\* C10 witness: a forced cycle has just stamped last_update_time while a
\* natural cycle is about to stamp it too.
C10_Witness ==
    \E l \in Loops :
        /\ pc[l] = "stamp"
        /\ pc[Operator] = "ret_ok"
        /\ op[Operator] = "force"
        /\ last_update_time = now
        /\ now > 0

\* C11 as stated: a failed cycle does not end the loop, which exits only by
\* reading should_stop = true, and the iteration after a failed cycle
\* attempts a cycle again.
C11_FailedCycleAlwaysRetried ==
    [][\A l \in Loops :
        /\ (Alive(l) /\ pc'[l] = "none") =>
              pc[l] = "check_stop" /\ should_stop
        /\ (pc[l] = "fetch" /\ pc'[l] = "sleep") =>
              /\ UNCHANGED last_update_time
              /\ wake_at'[l] = now + BackoffSecs
        /\ (/\ pc[l] = "gate"
            /\ pc'[l] # "gate"
            /\ cycle_log[l] \in {"failed", "failed_stamped"}) =>
              pc'[l] = "fetch"
      ]_vars

\* C11, amended: a failed cycle does not end the loop, which exits only by
\* reading should_stop = true; the failure leaves last_update_time as it
\* was and the loop asleep for BackoffSecs; the iteration after it attempts
\* a cycle again unless another cycle has set last_update_time since this
\* loop last found the gate open.
C11_FailedCycleRetried ==
    [][\A l \in Loops :
        /\ (Alive(l) /\ pc'[l] = "none") =>
              pc[l] = "check_stop" /\ should_stop
        /\ (pc[l] = "fetch" /\ pc'[l] = "sleep") =>
              /\ UNCHANGED last_update_time
              /\ wake_at'[l] = now + BackoffSecs
        /\ (pc[l] = "gate" /\ pc'[l] # "gate" /\ cycle_log[l] = "failed") =>
              pc'[l] = "fetch"
      ]_vars

\* C11 witness: a loop whose cycle failed is back at the gate, and no other
\* cycle has set last_update_time in the meantime.
C11_Witness ==
    \E l \in Loops : pc[l] = "gate" /\ cycle_log[l] = "failed"

\* C12: start() on a running service returns Ok and changes nothing, and
\* launches no loop; a start() that finds the service stopped marks it
\* running in the same step, so that of two concurrent start() calls only
\* one goes on; every launch is of one loop, by a start() that went on.
C12_StartWhenRunningIsNoOp ==
    [][/\ \A c \in Callers :
            (pc[c] = "idle" /\ op'[c] = "start") =>
                IF is_running
                THEN /\ pc'[c] = "ret_ok"
                     /\ UNCHANGED << svcVars, cacheVars, goVars >>
                     /\ LiveLoops' = LiveLoops
                ELSE /\ is_running'
                     /\ pc'[c] = "start_clear"
       /\ (LiveLoops' \ LiveLoops # {}) =>
            /\ Cardinality(LiveLoops' \ LiveLoops) = 1
            /\ \E c \in Callers :
                    /\ op[c] = "start"
                    /\ pc[c] = "start_spawn"
                    /\ pc'[c] = "ret_ok"
      ]_vars

\* C12 witness: two start() calls on a stopped service have both returned
\* Ok and one loop is alive.
C12_Witness ==
    /\ \A c \in Callers : op[c] = "start" /\ pc[c] = "ret_ok"
    /\ is_running
    /\ ~should_stop
    /\ Cardinality(LiveLoops) = 1

\* C13: stop() on a service that is not running returns Ok and changes
\* nothing; start() and stop() called one after the other never return Err,
\* and is_running is false when a stop() has returned.
C13_StopWhenStoppedIsNoOp ==
    /\ [](\A c \in Callers :
            op[c] \in {"start", "stop"} => pc[c] # "ret_err")
    /\ []((op[Operator] = "stop" /\ pc[Operator] = "ret_ok") => ~is_running)
    /\ [][\A c \in Callers :
            (pc[c] = "idle" /\ op'[c] = "stop" /\ ~is_running) =>
                /\ pc'[c] = "ret_ok"
                /\ UNCHANGED << svcVars, cacheVars, goVars >>
         ]_vars

\* C13 witness: a stop() that found the service not running, and so did not
\* set the stop flag, has returned Ok.
C13_Witness ==
    /\ op[Operator] = "stop"
    /\ pc[Operator] = "ret_ok"
    /\ ~should_stop
    /\ ~is_running
    /\ now > 0

\* C14: when initialize() has returned Ok, the service's CacheManager and
\* the service's GoIntegration, the one its cycles fetch through, are
\* initialized; when it has returned Err, is_running is false.
C14_InitializeBringsUpAll ==
    \A c \in Callers :
        op[c] = "initialize" =>
            /\ pc[c] = "ret_ok" =>
                  /\ is_initialized
                  /\ hit_count # None /\ miss_count # None
                  /\ eviction_count # None /\ last_reset_time # None
            /\ pc[c] = "ret_err" => ~is_running

\* C15: on an initialized CacheManager, whatever get, insert, insert_batch,
\* remove and clear calls were made, hit_count + miss_count is the number of
\* get calls issued since the most recent perform_daily_cache_reset, or
\* since initialization if there was none.
C15_HitsPlusMissesAreGets ==
    (hit_count # None /\ miss_count # None)
        => StatOf(hit_count) + StatOf(miss_count) = gets

\* One hit and one miss counted on a cache of two entries.
C15_Witness ==
    /\ hit_count = Some(1)
    /\ miss_count = Some(1)
    /\ gets = 2
    /\ entry_count = 2

\* A step in which task c calls the CacheManager method name, and a step in
\* which a cycle runs the cache reset.
CallStep(c, name) ==
    /\ pc[c] = "idle"
    /\ pc'[c] = "ret_ok"
    /\ op'[c] = name

CycleResetStep == \E t \in Tasks : pc[t] = "reset" /\ pc'[t] = "stamp"

\* The value the last entry for k in a batch carries, if there is one.
RECURSIVE LastIn(_, _)
LastIn(entries, k) ==
    IF entries = << >> THEN None
    ELSE LET e == entries[Len(entries)]
         IN  IF e[1] = k THEN Some(e[2])
             ELSE LastIn(SubSeq(entries, 1, Len(entries) - 1), k)

\* The value the step of task c inserts for k, if it inserts one.
Put(c, k) ==
    IF CallStep(c, "insert") /\ call'[c].key = k THEN call'[c].value
    ELSE IF CallStep(c, "insert_batch") THEN LastIn(call'[c].batch, k)
    ELSE None

\* The value the cache holds for k is the one most recently inserted for k:
\* an insertion for k stores its value, and nothing else stores a value.
StoredIsLastInserted ==
    \A k \in Keys :
        /\ \A c \in Tasks : Put(c, k) # None => product_cache'[k] = Put(c, k)
        /\ (product_cache'[k] # None /\ product_cache'[k] # product_cache[k])
               => \E c \in Tasks : Put(c, k) = product_cache'[k]

\* The step removes k, clears the product cache (clear, or the clear that
\* shutdown calls) or resets it.
Discards(k) ==
    \/ \E c \in Tasks : CallStep(c, "remove") /\ call'[c].key = k
    \/ \E c \in Tasks : CallStep(c, "clear")
    \/ \E c \in Tasks : CallStep(c, "shutdown")
    \/ \E c \in Tasks : CallStep(c, "perform_daily_cache_reset")
    \/ CycleResetStep

\* The step is the clock reaching k's time to live or its idle limit.
Expires(k) == now' > now /\ Expired(k, now')

\* What get returns for the key it was asked for.
GetReturnsStored(c) ==
    LET k == call'[c].key
    IN  /\ call'[c].value = IF contains_key(k) THEN product_cache[k] ELSE None
        /\ UNCHANGED << product_cache, entry_count >>

\* get's counting: one more hit on a value, one more miss on nothing.
GetCounts(c) ==
    IF call'[c].value # None
    THEN /\ StatOf(hit_count') = StatOf(hit_count) + 1
         /\ miss_count' = miss_count
    ELSE /\ StatOf(miss_count') = StatOf(miss_count) + 1
         /\ hit_count' = hit_count

\* C16 as stated: get(k) returns the value most recently inserted for k when
\* k is present (not removed, cleared or reset since) and nothing otherwise;
\* it increments hit_count by exactly 1 in the first case and miss_count by
\* exactly 1 in the second, and changes neither total_entries, the other
\* counter, nor the cache contents.
C16_GetReturnsLastInserted ==
    [][/\ StoredIsLastInserted
       /\ \A k \in Keys :
            (product_cache[k] # None /\ product_cache'[k] = None)
                => Discards(k)
       /\ \A c \in Tasks :
            CallStep(c, "get") => GetReturnsStored(c) /\ GetCounts(c)]_vars

\* C16, amended: on an initialized CacheManager, get(k) returns the value
\* most recently inserted for k when k is present (not removed, cleared,
\* reset or expired since) and nothing otherwise; it increments hit_count by
\* exactly 1 in the first case and miss_count by exactly 1 in the second,
\* and changes neither total_entries, the other counter, nor the cache
\* contents.
C16_GetReturnsLastUnexpired ==
    [][/\ StoredIsLastInserted
       /\ \A k \in Keys :
            (product_cache[k] # None /\ product_cache'[k] = None)
                => Discards(k) \/ Expires(k)
       /\ \A c \in Tasks :
            CallStep(c, "get")
                => /\ GetReturnsStored(c)
                   /\ (hit_count # None /\ miss_count # None)
                          => GetCounts(c)]_vars

\* A hit that returns the second value inserted for the key, after a miss,
\* late enough for an entry to have expired.
C16_Witness ==
    \E c \in Tasks :
        /\ op[c] = "get"
        /\ pc[c] = "ret_ok"
        /\ call[c].value = Some("v2")
        /\ hit_count = Some(1)
        /\ miss_count = Some(1)
        /\ now >= IdleSecs

\* get(k) in the state the step leads to would return value.
ThenGetReturns(k, value) ==
    /\ product_cache'[k] = value
    /\ value # None
           => /\ now' < modified_at'[k] + TtlSecs
              /\ now' < accessed_at'[k] + IdleSecs

\* C17: insert(k, v) increments total_entries by 1 if k was absent and
\* leaves it unchanged if k was present; in both cases a following get(k)
\* returns v, so a second insert for a key counts no second entry and
\* replaces the value.
C17_InsertCountsNewKeys ==
    [][\A c \in Tasks :
          CallStep(c, "insert")
              => LET k == call'[c].key
                 IN  /\ entry_count' = IF contains_key(k) THEN entry_count
                                       ELSE entry_count + 1
                     /\ ThenGetReturns(k, call'[c].value)]_vars

\* An insert of a second value for a key the cache held has returned, and
\* the cache counts one entry.
C17_Witness ==
    \E c \in Tasks :
        /\ op[c] = "insert"
        /\ pc[c] = "ret_ok"
        /\ call[c] = [key |-> "k1", value |-> Some("v2"), batch |-> << >>,
                      had_key |-> TRUE]
        /\ product_cache["k1"] = Some("v2")
        /\ product_cache["k2"] = None
        /\ entry_count = 1

\* C18: remove(k) on an absent key leaves total_entries and the cache
\* unchanged; on a present key it decrements total_entries by exactly 1 and
\* a following get(k) is a miss; in neither case does it change hit_count,
\* miss_count or other keys.
C18_RemoveCountsPresentKeys ==
    [][\A c \in Tasks :
          CallStep(c, "remove")
              => LET k == call'[c].key
                 IN  /\ IF contains_key(k)
                        THEN entry_count' = entry_count - 1
                        ELSE UNCHANGED << entry_count, product_cache >>
                     /\ ThenGetReturns(k, None)
                     /\ UNCHANGED << hit_count, miss_count >>
                     /\ \A j \in Keys \ {k} :
                            product_cache'[j] = product_cache[j]]_vars

\* A remove of a key the cache held has returned; the other key is still
\* there and is the one entry counted.
C18_Witness ==
    \E c \in Tasks :
        /\ op[c] = "remove"
        /\ pc[c] = "ret_ok"
        /\ call[c].key = "k1"
        /\ call[c].had_key
        /\ product_cache["k1"] = None
        /\ product_cache["k2"] # None
        /\ entry_count = 1

\* C19: perform_daily_cache_reset leaves the product cache empty (every
\* following get is a miss), sets total_entries, hit_count, miss_count and
\* eviction_count to 0, sets last_reset_time to a value not earlier than its
\* previous value, and leaves every admin cache entry unchanged.
C19_ResetZeroesAllButAdmin ==
    [][((\E c \in Tasks : CallStep(c, "perform_daily_cache_reset"))
            \/ CycleResetStep)
          => /\ \A k \in Keys : ThenGetReturns(k, None)
             /\ entry_count' = 0
             /\ hit_count' = Some(0)
             /\ miss_count' = Some(0)
             /\ eviction_count' = Some(0)
             /\ last_reset_time' # None
             /\ last_reset_time # None
                    => last_reset_time'[1] >= last_reset_time[1]
             /\ admin_cache' = admin_cache]_vars

\* A reset called later than the initialization has returned and the admin
\* cache still holds its entry.
C19_Witness ==
    \E c \in Tasks :
        /\ op[c] = "perform_daily_cache_reset"
        /\ pc[c] = "ret_ok"
        /\ now > 0
        /\ last_reset_time = Some(now)
        /\ hit_count = Some(0)
        /\ entry_count = 0
        /\ admin_cache["k1"] = Some("v1")

\* C20: clear() empties the product cache and sets total_entries to 0 while
\* leaving hit_count, miss_count, eviction_count, last_reset_time and the
\* admin cache unchanged.
C20_ClearKeepsCounters ==
    [][\A c \in Tasks :
          CallStep(c, "clear")
              => /\ \A k \in Keys : ThenGetReturns(k, None)
                 /\ entry_count' = 0
                 /\ UNCHANGED << hit_count, miss_count, eviction_count,
                                 last_reset_time, admin_cache >>]_vars

\* A clear has returned on a cache that had counted a hit and a miss.
C20_Witness ==
    \E c \in Tasks :
        /\ op[c] = "clear"
        /\ pc[c] = "ret_ok"
        /\ \A k \in Keys : product_cache[k] = None
        /\ entry_count = 0
        /\ hit_count = Some(1)
        /\ miss_count = Some(1)
        /\ last_reset_time = Some(0)
        /\ admin_cache["k1"] = Some("v1")

\* C21: admin cache entries are removed only by an explicit clear_admin
\* call: get, insert, insert_batch, remove, clear, perform_daily_cache_reset,
\* a cycle and shutdown neither remove nor change an admin entry, and admin
\* entries never expire.  An admin entry changes only in a step of
\* clear_admin or of insert_admin for its key.
C21_AdminOnlyClearedExplicitly ==
    [][\A k \in Keys :
          admin_cache'[k] # admin_cache[k]
              => \E c \in Tasks :
                    \/ CallStep(c, "clear_admin")
                    \/ CallStep(c, "insert_admin") /\ call'[c].key = k]_vars

\* C22: clear_admin() empties the admin cache and leaves the product cache
\* contents, total_entries, hit_count, miss_count, eviction_count and
\* last_reset_time unchanged.
C22_ClearAdminKeepsProducts ==
    [][\A c \in Tasks :
          CallStep(c, "clear_admin")
              => /\ \A k \in Keys : admin_cache'[k] = None
                 /\ UNCHANGED << product_cache, modified_at, accessed_at,
                                 entry_count, hit_count, miss_count,
                                 eviction_count, last_reset_time >>]_vars

\* A clear_admin has returned on an admin cache that held an entry, and the
\* product cache still holds and counts its entry.
C22_Witness ==
    \E c \in Tasks :
        /\ op[c] = "clear_admin"
        /\ pc[c] = "ret_ok"
        /\ call[c].had_key
        /\ \A k \in Keys : admin_cache[k] = None
        /\ product_cache["k1"] # None
        /\ entry_count = 1
        /\ hit_count = Some(1)

\* C23: eviction_count is never changed by explicit removal: remove, clear,
\* insert, insert_batch and get leave it unchanged in every reachable state;
\* it grows only in a step in which an entry expires, and it goes back to 0
\* only in a step of perform_daily_cache_reset.
C23_EvictionCountNotByCalls ==
    [][/\ \A c \in Tasks :
            (\E name \in {"remove", "clear", "insert", "insert_batch", "get"} :
                CallStep(c, name))
                => eviction_count' = eviction_count
       /\ StatOf(eviction_count') > StatOf(eviction_count)
            => \E k \in Keys : product_cache[k] # None /\ Expires(k)
       /\ (StatOf(eviction_count) > 0 /\ StatOf(eviction_count') = 0)
            => \/ \E c \in Tasks : CallStep(c, "perform_daily_cache_reset")
               \/ CycleResetStep]_vars

\* A remove of a key the cache held has returned, after another entry has
\* expired (it is still counted), and eviction_count reads 0.
C23_Witness ==
    \E c \in Tasks :
        /\ op[c] = "remove"
        /\ pc[c] = "ret_ok"
        /\ call[c].had_key
        /\ \A k \in Keys : product_cache[k] = None
        /\ entry_count = 1
        /\ eviction_count = Some(0)

\* The cache after insert has been called on the first n entries of a list,
\* one call after the other, starting from the cache c.
RECURSIVE AfterInserts(_, _, _)
AfterInserts(c, entries, n) ==
    IF n = 0 THEN c
    ELSE InsertInto(AfterInserts(c, entries, n - 1),
                    entries[n][1], entries[n][2], now)

\* C24: insert_batch(entries) run without interference ends in the same
\* cache contents and the same total_entries as calling insert on each entry
\* in list order, including for an empty list and for a list that repeats a
\* key: the key is counted once and its last value wins.
C24_BatchIsInsertEach ==
    [][\A c \in Tasks :
          CallStep(c, "insert_batch")
              => LET entries == call'[c].batch
                     each == AfterInserts(TheCache, entries, Len(entries))
                 IN  /\ product_cache' = each.map
                     /\ entry_count' = each.count
                     /\ modified_at' = each.modified
                     /\ accessed_at' = each.accessed
                     /\ \A k \in Keys :
                            product_cache'[k] =
                                IF LastIn(entries, k) # None
                                THEN LastIn(entries, k)
                                ELSE product_cache[k]
                     /\ entry_count' = entry_count + Cardinality(
                            { k \in Keys : /\ LastIn(entries, k) # None
                                           /\ ~contains_key(k) })]_vars

\* A batch that carries two values for one new key has returned: the key
\* holds the second value and is counted once.
C24_Witness ==
    \E c \in Tasks :
        /\ op[c] = "insert_batch"
        /\ pc[c] = "ret_ok"
        /\ call[c].batch = << << "k1", "v1" >>, << "k1", "v2" >> >>
        /\ product_cache["k1"] = Some("v2")
        /\ product_cache["k2"] = None
        /\ entry_count = 1
        /\ now = 0

\* No CacheManager call is in progress, and the callers whose insert has
\* returned.
NoCallInProgress == \A c \in Tasks : pc[c] \in {"none", "idle", "ret_ok"}

Inserted == { c \in Callers : pc[c] = "ret_ok" /\ op[c] = "insert" }

\* C25: when several callers concurrently insert the same previously absent
\* key, total_entries is miscounted only transiently: once all those insert
\* calls have returned and no other operation is in progress, total_entries
\* again equals the number of distinct keys present.
C25_MiscountIsTransient ==
    NoCallInProgress
        => entry_count = Cardinality({ k \in Keys : contains_key(k) })

\* C26: concurrent insert calls on pairwise distinct new keys, under every
\* interleaving, end with every key retrievable with its own value and
\* total_entries increased by exactly the number of inserted keys.
C26_DistinctKeysAllCounted ==
    (/\ NoCallInProgress
     /\ \A c, d \in Inserted : c # d => call[c].key # call[d].key)
        => /\ \A c \in Inserted :
                /\ contains_key(call[c].key)
                /\ product_cache[call[c].key] = call[c].value
           /\ entry_count = Cardinality(Inserted)

\* Every caller's insert has returned, each for a key of its own.
C26_Witness ==
    /\ Inserted = Callers
    /\ \A c, d \in Callers : c # d => call[c].key # call[d].key
    /\ \A c \in Callers : ~call[c].had_key
    /\ entry_count = NumCallers

\* A step in which task c calls a method of GoMethods.
GoCallStep(c) == pc[c] = "idle" /\ op'[c] \in GoMethods

C29_MigrateCounts ==
    [][/\ \A c \in Tasks :
            (GoCallStep(c) /\ is_initialized) => go_calls' = go_calls + 1
       /\ \A c \in Tasks :
            (pc[c] = "go_exec" /\ pc'[c] # "go_exec"
                               /\ op[c] = "migrate_product")
                => /\ go_calls' = go_calls
                   /\ call'[c].key \in GoExits
                   /\ IF call'[c].key = "zero"
                      THEN /\ pc'[c] = "ret_ok"
                           /\ call'[c].value = Some("true")
                           /\ successful_inserts' = successful_inserts + 1
                           /\ failed_inserts' = failed_inserts
                      ELSE /\ IF call'[c].key = "nonzero"
                              THEN /\ pc'[c] = "ret_ok"
                                   /\ call'[c].value = Some("false")
                              ELSE pc'[c] = "ret_err"
                           /\ failed_inserts' = failed_inserts + 1
                           /\ successful_inserts' = successful_inserts
       /\ successful_inserts' + failed_inserts' = migrate_done'
       /\ successful_inserts' + failed_inserts' <= go_calls']_vars

\* Two migrate_product calls have returned, one counted as a success and
\* one as a failure, and a third backend call was counted as well.
C29_Witness ==
    /\ successful_inserts = 1
    /\ failed_inserts = 1
    /\ migrate_done = 2
    /\ go_calls = 3
    /\ \E c \in Tasks :
            /\ op[c] = "migrate_product"
            /\ pc[c] = "ret_err"
            /\ call[c].key = "spawn_err"

\* C28: for migrate_product, check_product_exists and check_brand_exists,
\* the argument vector handed to the backend executable has a shape that
\* does not depend on payload content: whatever the payload value holds
\* (whitespace, quote characters, text that looks like a flag), it reaches
\* the backend as exactly one argument with its content unchanged.  For
\* migrate_product that argument is the document, between the quotes the
\* code puts around it.
C28_ArgvShapeFixed ==
    /\ command = "check_brand_exists"
         => argv = << << "check-brand" >>, << "--name" >>, payload >>
    /\ command = "check_product_exists"
         => argv = << << "check-product" >>, << "--name" >>, payload,
                      << "--brand" >>, Brand, << "--flavor" >>, Flavor,
                      << "--year" >>, Year >>
    /\ command = "migrate_product"
         => argv = << << "migrate-product" >>, << "--json" >>,
                      << "'" >> \o generate_product_json(payload)
                                \o << "'" >> >>

\* C30: the supervising loop's time gate uses the configured update
\* interval: for a service built with update_interval_hours = h, a natural
\* poll runs a cycle exactly when the time elapsed since last_update_time is
\* at least h hours.
C30_GateUsesConfiguredInterval ==
    [][\A l \in Loops :
          (pc[l] = "gate" /\ pc'[l] # "gate")
              => ((pc'[l] = "fetch")
                    <=> (now - last_update_time
                            >= update_interval_hours * SecsPerHour))]_vars

\* C31: after an iteration of the supervising loop in which the cycle
\* failed the loop waits the backoff interval (60 s) before its next stop
\* check; after one in which the cycle succeeded or was not due it waits the
\* poll interval (300 s); a loop comes to a stop check only when it was
\* spawned or when one of these waits is over.
C31_LoopWaitsBetweenIterations ==
    [][\A l \in Loops :
          /\ (pc[l] # "sleep" /\ pc'[l] = "sleep")
                => /\ pc[l] \in {"gate", "fetch", "stamp"}
                   /\ wake_at'[l] = now + (IF pc[l] = "fetch"
                                           THEN BackoffSecs ELSE PollSecs)
                   /\ (pc[l] = "fetch")
                        <=> (cycle_log'[l] \in {"failed", "failed_stamped"})
          /\ (pc[l] # "check_stop" /\ pc'[l] = "check_stop")
                => \/ ~Alive(l)
                   \/ pc[l] = "sleep" /\ now >= wake_at[l]]_vars

\* A loop is in the wait after a failed cycle, with a minute to go; the
\* loop's earlier iteration ended in the five minutes' wait.
C31_Witness ==
    \E l \in Loops :
        /\ pc[l] = "sleep"
        /\ cycle_log[l] \in {"failed", "failed_stamped"}
        /\ wake_at[l] = now + BackoffSecs
        /\ last_update_time > 0

\* C32: start() on a stopped service returns with is_running = true and
\* should_stop = false and with one supervising loop launched; the stop flag
\* an earlier stop() left at true is cleared before the new loop exists, so
\* before its first stop check, and it is set again only by a stop() call:
\* the new loop does not end at once.
C32_StartClearsStopFlag ==
    [][/\ \A c \in Callers :
            (pc[c] = "start_spawn" /\ pc'[c] # "start_spawn")
                => /\ pc'[c] = "ret_ok"
                   /\ is_running' /\ ~should_stop /\ ~should_stop'
                   /\ \E l \in Loops :
                        /\ ~Alive(l) /\ pc'[l] = "check_stop"
                        /\ \A m \in Loops \ {l} : pc'[m] = pc[m]
       /\ (~should_stop /\ should_stop')
            => \E c \in Callers : pc[c] = "stop_set" /\ op[c] = "stop"
       /\ \A l \in Loops :
            (Alive(l) /\ pc'[l] = "none")
                => pc[l] = "check_stop" /\ should_stop]_vars

\* start() has returned after launching a second loop: the service was
\* stopped in between, and the flag that stop() set is clear again.
C32_Witness ==
    /\ \E c \in Callers : pc[c] = "ret_ok" /\ op[c] = "start"
    /\ is_running /\ ~should_stop
    /\ \E l, m \in Loops :
        /\ l # m
        /\ pc[l] = "check_stop"
        /\ pc[m] = "sleep"

C34_CycleStepsInOrder ==
    [][/\ (\A t \in Tasks :
          /\ (pc'[t] = "migrate" /\ pc[t] # "migrate")
                => /\ pc[t] = "fetch"
                   /\ processed_count'[t] = 0
                   /\ accepted_products'[t] # << >>
          /\ (pc'[t] = "stats" /\ pc[t] # "stats")
                => /\ pc[t] = "migrate"
                   /\ processed_count'[t] = Len(accepted_products[t])
          /\ (pc'[t] = "reset" /\ pc[t] # "reset")
                => \/ /\ pc[t] = "fetch"
                      /\ accepted_products'[t] = << >>
                      /\ UNCHANGED << total_processed, total_accepted,
                                      total_denied >>
                   \/ /\ pc[t] = "stats"
                      /\ total_processed'
                            = total_processed + processed_count[t]
                      /\ total_accepted' = total_accepted + accepted_count[t]
                      /\ total_denied' = total_denied + denied_count[t]
          /\ (pc'[t] = "stamp" /\ pc[t] # "stamp")
                => /\ pc[t] = "reset"
                   /\ \A k \in Keys : product_cache'[k] = None
                   /\ entry_count' = 0
          /\ (pc[t] = "stamp" /\ pc'[t] # "stamp")
                => /\ last_update_time' = now
                   /\ pc'[t] \in {"sleep", "ret_ok"})
       /\ last_update_time' # last_update_time
            => \E t \in Tasks : pc[t] = "stamp" /\ pc'[t] # "stamp"]_vars

\* A cycle over an approved record has reached its last step: the counters
\* hold its totals, the cache has just been reset, and last_update_time is
\* still the one before the cycle.
C34_Witness ==
    \E t \in Tasks :
        /\ pc[t] = "stamp"
        /\ accepted_products[t] # << >>
        /\ total_processed = Len(accepted_products[t])
        /\ \A k \in Keys : product_cache[k] = None
        /\ last_reset_time = Some(now)
        /\ last_update_time < now

\* C35: for approval_status in {-1, 0, 1} exactly one of is_denied,
\* is_pending and is_approved holds (-1 denied, 0 pending, 1 approved), for
\* any other value none holds, and a record built by ProductData::new is
\* pending.
C35_ExactlyOneStatus ==
    verdict.asked =>
        LET st == product.approval_status
            holding == { f \in {"is_denied", "is_pending", "is_approved"} :
                            verdict[f] }
        IN  /\ st = -1 => holding = {"is_denied"}
            /\ st = 0 => holding = {"is_pending"}
            /\ st = 1 => holding = {"is_approved"}
            /\ st \notin {-1, 0, 1} => holding = {}
            /\ product.fresh => holding = {"is_pending"}

\* The predicates have been asked of a record whose status is none of the
\* three.
C35_Witness ==
    /\ verdict.asked
    /\ product.approval_status = 2
    /\ ~product.fresh

\* C36: in every state where no cache operation is in progress,
\* total_entries equals the number of keys present in the product cache,
\* whatever insert, insert_batch, remove, clear and perform_daily_cache_reset
\* calls and expiries came before.
C36_EntriesMatchKeys ==
    NoCallInProgress
        => entry_count = Cardinality({ k \in Keys : contains_key(k) })

\* C37: total_entries never wraps around below zero: under every
\* interleaving of concurrent insert, remove, clear and
\* perform_daily_cache_reset calls the entry counter stays between 0 and the
\* number of insert calls made, and memory_usage_bytes = total_entries * 1024
\* does not overflow the 64 bits.
C37_EntryCountInRange ==
    /\ entry_count >= 0
    /\ entry_count
         <= Cardinality(Keys)
              + Cardinality({ c \in Callers : op[c] = "insert" })
    /\ memory_usage_bytes >= 0

\* C38: in every reachable state in which no cycle holds the counter locks,
\* total_processed = total_accepted + total_denied, and each of the three
\* counters is non-decreasing over the whole run, also when a forced and a
\* natural cycle overlap.
C38_ProcessedIsAcceptedPlusDenied ==
    [][/\ (\A k \in CounterLocks : counter_lock[k] = 0)
            => total_processed = total_accepted + total_denied
       /\ (\A k \in CounterLocks : counter_lock'[k] = 0)
            => total_processed' = total_accepted' + total_denied'
       /\ total_processed' >= total_processed
       /\ total_accepted' >= total_accepted
       /\ total_denied' >= total_denied]_vars

\* A forced cycle and a cycle of the loop are under way, no lock is held,
\* and the counters hold one migrated and one failed record.
C38_Witness ==
    /\ InCycle(Operator)
    /\ \E l \in Loops : InCycle(l)
    /\ \A k \in CounterLocks : counter_lock[k] = 0
    /\ total_processed = 2
    /\ total_accepted = 1
    /\ total_denied = 1

\* C39: on a CacheManager on which neither initialize nor
\* perform_daily_cache_reset has been called, get still returns the stored
\* value or nothing, but hit_count and miss_count stay 0 however many get
\* calls are made; only initialize or a reset creates the counters, and
\* from then on every get is counted.
C39_NoCountingBeforeInitialize ==
    [][/\ (hit_count = None) <=> (miss_count = None)
       /\ \A c \in Tasks :
            CallStep(c, "get")
                => /\ GetReturnsStored(c)
                   /\ IF hit_count = None
                      THEN /\ hit_count' = None /\ miss_count' = None
                           /\ StatOf(hit_count') = 0
                           /\ StatOf(miss_count') = 0
                      ELSE GetCounts(c)
       /\ (hit_count = None /\ hit_count' # None)
            => /\ hit_count' = Some(0) /\ miss_count' = Some(0)
               /\ \/ \E c \in Tasks : CallStep(c, "cache_initialize")
                  \/ \E c \in Tasks : CallStep(c, "perform_daily_cache_reset")
                  \/ CycleResetStep]_vars

\* Two get calls have been made on a CacheManager never initialized or
\* reset, the second one found a value, and no counter exists.
C39_Witness ==
    /\ hit_count = None
    /\ miss_count = None
    /\ gets = 2
    /\ \E c \in Tasks :
        /\ pc[c] = "ret_ok"
        /\ op[c] = "get"
        /\ call[c].value # None

\* The counter lock task t is waiting for, "" when it waits for none: the
\* next write guard of "Update statistics", or the read guard of the field
\* get_service_stats reads next.
WaitsFor(t) ==
    IF pc[t] = "stats" /\ HeldBy(t) # CounterLocks
    THEN IF counter_lock[NextLock(t)] # 0 THEN NextLock(t) ELSE ""
    ELSE IF \E k \in CounterLocks : pc[t] = "read_" \o k /\ counter_lock[k] # 0
         THEN CHOOSE k \in CounterLocks : pc[t] = "read_" \o k
         ELSE ""

\* Following who holds what t waits for leads, within n holders, to a task
\* that waits for no lock.
RECURSIVE Unblocked(_, _)
Unblocked(t, n) ==
    IF WaitsFor(t) = "" THEN TRUE
    ELSE IF n = 0 THEN FALSE
    ELSE Unblocked(counter_lock[WaitsFor(t)], n - 1)

\* Task t is at a statement that takes one of the service's locks and
\* holds it beyond the statement or waits for one so held, and that
\* statement.
AtLock(t) ==
    \/ pc[t] = "stats"
    \/ \E i \in 1..Len(StatsFields) : pc[t] = "read_" \o StatsFields[i]

LockStep(t) ==
    \/ StatsLock(t)
    \/ StatsWrite(t)
    \/ \E i \in 1..Len(StatsFields) : GetStatsRead(t, StatsFields[i])

\* C40: no interleaving of start, stop, force_hourly_update,
\* get_service_stats and the supervising loop deadlocks on the service's
\* locks: a counter's write guard is held only inside "Update statistics",
\* whoever waits for a lock waits for a task that can go on, and a task at
\* a lock it does not have to wait for has its statement enabled, so that
\* each call goes on to return as long as the backend calls do.
C40_NoLockDeadlock ==
    \A t \in Tasks :
        /\ HeldBy(t) # {} => pc[t] = "stats"
        /\ Unblocked(t, Cardinality(Tasks))
        /\ (AtLock(t) /\ WaitsFor(t) = "") => ENABLED LockStep(t)

\* A forced cycle and a snapshot both wait for total_processed, which the
\* loop's cycle holds while it takes the other two locks; a stop() has set
\* the flag meanwhile.
C40_Witness ==
    \E l \in Loops :
        /\ counter_lock["total_processed"] = l
        /\ counter_lock["total_denied"] = 0
        /\ WaitsFor(Operator) = "total_processed"
        /\ WaitsFor(Reader) = "total_processed"
        /\ should_stop

=============================================================================
